---- MODULE Spec2Model ----
(***************************************************************************)
(* Control plane of the robby_x differential-drive robot:                  *)
(*   src/src/api/control_service/rate_limiter.py   TokenBucket             *)
(*   src/src/api/control_service/command_queue.py  CommandQueue + worker   *)
(*   src/src/api/control_service/app.py            ControlServiceApp       *)
(*   src/src/api/control_service/config.py         ControlServiceConfig    *)
(*                                                                         *)
(* Scheduling is asyncio's: one thread, tasks switch only at an await that *)
(* really suspends.  Each action below is one run of a task from one       *)
(* suspension point to the next.                                           *)
(*                                                                         *)
(* Time is a discrete clock `now` in ticks of 1/80 s (Second ticks are the *)
(* source's 1.0 s).  Token counts are fixed point: OneToken units are the  *)
(* 1.0 of the source, and a rate is units per tick, so that rate 1 is the  *)
(* source's 0.5 tokens per second and rate 2 its 1.0.  The clock is read   *)
(* at the whole seconds and at the instants a sleep ends.  The length of a *)
(* sleep is the exact quotient the source computes and its deadline the    *)
(* exact sum; the clock stops at every deadline, where the sleeper can be  *)
(* resumed.  The tick is fine enough for every deadline the                *)
(* specifications reach to be a whole number of ticks (DeadlinesWhole).    *)
(* A drive command is [id, duration_s]: id numbers the accepted commands   *)
(* in submission order and stands for the (left_speed, right_speed) pair   *)
(* handed to actuator.drive(); duration_s = 0 is the source's None.        *)
(***************************************************************************)
EXTENDS Integers, Sequences, FiniteSets, TLC

\* ------------------------------------------------------------------ bounds
MaxCmds == 3
MaxTime == 3
MaxQueue == 2
MaxStarts == 3
MaxCalls == 4
MaxWaiters == 2
MaxReads == 3

\* The source's 1.0 second, in ticks: wait_for_token's fallback sleep of
\* 0.1 s is Second / 10 = 8 ticks.
Second == 80

\* The source's 1.0 token (rate_limiter.py: `if self._tokens >= 1.0`).
OneToken == 160

\* The values the configuration and the commands are drawn from: rates in
\* units per tick, bursts in tokens, durations in seconds.
Rates == {1, 2}
Bursts == {1, 2}
DurationSeconds == {1}

VARIABLES
    queue,              \* CommandQueue._queue: the entries sitting in the asyncio.Queue
    unfinished,         \* asyncio.Queue._unfinished_tasks (put: +1, task_done: -1)
    maxsize,            \* CommandQueue._maxsize
    shutdown,           \* CommandQueue._shutdown.is_set()
    worker_task,        \* CommandQueue._worker_task: a task number, NoTask for None
    worker_pc,          \* per worker task: where its _worker coroutine is suspended
    command,            \* per worker task: _worker's local `command` (the dequeued entry)
    wake_at,            \* per worker task: deadline of its pending asyncio.sleep
    stoppers,           \* the suspended stop() calls, in call order: the task each
                        \* awaits and next_id at the time of the call
    enq_ret,            \* last outcome of enqueue_drive: depth, or QueueFull
    next_id,            \* id of the next accepted command
    drives,             \* ids passed to actuator.drive() by the worker, in call order
    estopped,           \* actuator latch (emergency_stop / reset_estop)
    generation,         \* number of worker tasks created so far
    now,                \* time.monotonic()
    execution_limiter,  \* ControlServiceApp.execution_limiter (CommandQueue._limiter)
    ingress_limiter,    \* ControlServiceApp.ingress_limiter
    config,             \* ControlServiceApp.config
    servo,              \* servo_controller (pan, tilt), in degrees
    token_bucket,       \* a TokenBucket used on its own, outside the service
    token_log,          \* the calls on `token_bucket` that returned: [at, ok, by]
    token_wake,         \* per caller of wait_for_token on it: the deadline of its
                        \* sleep, None when it is not in the call
    estop,              \* CamJamMotorController._estop of a controller on its own
    motor_log,          \* the calls on that controller and, after each, the
                        \* commands it gave its backend
    line_follower,      \* a LineFollower: its settings, _ema_left, _ema_right, _on_line
    line_reads          \* the read() calls made on it

vars == <<queue, unfinished, maxsize, shutdown, worker_task, worker_pc,
          command, wake_at, stoppers, enq_ret, next_id,
          drives, estopped, generation, now, execution_limiter,
          ingress_limiter, config, servo, token_bucket, token_log, token_wake,
          estop, motor_log, line_follower, line_reads>>

\* ------------------------------------------------------------ arithmetic
Max(a, b) == IF a >= b THEN a ELSE b
Min(a, b) == IF a <= b THEN a ELSE b

\* Exact ticks: the fraction num / den, in lowest terms.
RECURSIVE GCD(_, _)
GCD(a, b) == IF b = 0 THEN a ELSE GCD(b, a % b)
Fraction(n, d) == [num |-> n \div GCD(n, d), den |-> d \div GCD(n, d)]
Whole(n) == [num |-> n, den |-> 1]

\* asyncio.sleep(delay) called at time t: the deadline t + delay.
sleep_until(t, delay) == Fraction(t * delay.den + delay.num, delay.den)

\* The deadline of a sleep is reached at time t.
sleep_over(t, deadline) == t * deadline.den >= deadline.num

\* A deadline one second later, on a clock whose origin is the present.
one_second_closer(deadline) ==
    IF deadline.num <= Second * deadline.den THEN Whole(0)
    ELSE [deadline EXCEPT !.num = @ - Second * deadline.den]

\* ----------------------------------------------------------- TokenBucket
\* TokenBucket.__init__: a full bucket stamped with the current time.
TokenBucket(rate, capacity, t) ==
    [rate_per_second |-> rate, capacity |-> capacity,
     tokens |-> capacity * OneToken, updated_at |-> t]

\* _refill without the cap at capacity.
refill_uncapped(b, t) ==
    LET elapsed == Max(0, t - b.updated_at)
    IN  IF elapsed <= 0
        THEN b
        ELSE [b EXCEPT !.tokens = b.tokens + elapsed * b.rate_per_second,
                       !.updated_at = t]

\* float("nan") as a rate: a value apart from every rate, for which each
\* comparison of the source is false.
NaN == -1000

\* The source's `x <= 0` on a float that may be NaN.
not_positive(x) == x # NaN /\ x <= 0

\* TokenBucket._refill.  With a NaN rate the sum is NaN and min() returns its
\* first argument, the capacity.
refill(b, t) ==
    LET elapsed == Max(0, t - b.updated_at)
    IN  IF elapsed <= 0
        THEN b
        ELSE [b EXCEPT !.tokens = IF b.rate_per_second = NaN
                                  THEN b.capacity * OneToken
                                  ELSE Min(b.capacity * OneToken,
                                           b.tokens + elapsed * b.rate_per_second),
                       !.updated_at = t]

\* allow that admits without taking the token.
allow_without_consume(b, t) ==
    LET r == refill(b, t)
    IN  [ok |-> r.tokens >= OneToken, bucket |-> r]

\* allow asking for more than one whole token.
allow_strict(b, t) ==
    LET r == refill(b, t)
    IN  IF r.tokens > OneToken
        THEN [ok |-> TRUE, bucket |-> [r EXCEPT !.tokens = @ - OneToken]]
        ELSE [ok |-> FALSE, bucket |-> r]

\* TokenBucket.allow: the locked section; [ok, bucket].
allow(b, t) ==
    LET r == refill(b, t)
    IN  IF r.tokens >= OneToken
        THEN [ok |-> TRUE, bucket |-> [r EXCEPT !.tokens = @ - OneToken]]
        ELSE [ok |-> FALSE, bucket |-> r]

\* wait_for_token that returns without taking the token.
wait_for_token_without_consume(b, t) ==
    LET r == refill(b, t)
        deficit == Max(0, OneToken - r.tokens)
    IN  IF r.tokens >= OneToken
        THEN [ok |-> TRUE, bucket |-> r, wait_time |-> Whole(0)]
        ELSE [ok |-> FALSE, bucket |-> r,
              wait_time |-> IF r.rate_per_second # NaN /\ r.rate_per_second > 0
                            THEN Fraction(deficit, r.rate_per_second)
                            ELSE Fraction(Second, 10)]

\* TokenBucket.wait_for_token: one iteration of its loop; [ok, bucket, wait_time].
\* wait_time is the argument of asyncio.sleep, in ticks: deficit / rate (units
\* over units per tick), 0.1 s when the rate is NaN or not positive.
wait_for_token(b, t) ==
    LET r == refill(b, t)
        deficit == Max(0, OneToken - r.tokens)
    IN  IF r.tokens >= OneToken
        THEN [ok |-> TRUE, bucket |-> [r EXCEPT !.tokens = @ - OneToken],
              wait_time |-> Whole(0)]
        ELSE [ok |-> FALSE, bucket |-> r,
              wait_time |-> IF r.rate_per_second # NaN /\ r.rate_per_second > 0
                            THEN Fraction(deficit, r.rate_per_second)
                            ELSE Fraction(Second, 10)]

\* ---------------------------------------------------------- CommandQueue
NoCommand == [id |-> 0, duration_s |-> 0]
NoTask == 0
QueueFull == -1

Ids(q) == {q[i].id : i \in 1..Len(q)}

\* enqueue_drive with `>` for `>=` in the capacity test.
enqueue_drive_off_by_one(q, unf, max, cmd) ==
    IF max # 0 /\ Len(q) > max
    THEN [raised |-> TRUE, queue |-> q, unfinished |-> unf, depth |-> 0]
    ELSE [raised |-> FALSE, queue |-> Append(q, cmd), unfinished |-> unf + 1,
          depth |-> Len(q) + 1]

\* CommandQueue.enqueue_drive on queue q with counter unf: [raised, queue, unfinished, depth].
enqueue_drive(q, unf, max, cmd) ==
    IF max # 0 /\ Len(q) >= max
    THEN [raised |-> TRUE, queue |-> q, unfinished |-> unf, depth |-> 0]
    ELSE [raised |-> FALSE, queue |-> Append(q, cmd), unfinished |-> unf + 1,
          depth |-> Len(q) + 1]

\* clear that stops one entry short of the end of the queue.
clear_keeps_last(q, unf) ==
    IF q = <<>> THEN [queue |-> q, unfinished |-> unf]
    ELSE [queue |-> <<q[Len(q)]>>, unfinished |-> unf - (Len(q) - 1)]

\* clear without the task_done of each entry it takes.
clear_without_task_done(q, unf) == [queue |-> <<>>, unfinished |-> unf]

\* CommandQueue.clear: get_nowait + task_done until QueueEmpty; [queue, unfinished].
clear(q, unf) == [queue |-> <<>>, unfinished |-> unf - Len(q)]

\* The drain without the task_done of each entry it takes.
drain_without_task_done(q, unf) == [queue |-> <<>>, unfinished |-> unf]

\* The drain in _worker's outer finally; [queue, unfinished].
drain(q, unf) == [queue |-> <<>>, unfinished |-> unf - Len(q)]

\* set_maxsize that refuses only a negative limit.
set_maxsize_accepts_zero(max, n) ==
    IF n < 0 THEN [raised |-> TRUE, maxsize |-> max]
    ELSE [raised |-> FALSE, maxsize |-> n]

\* CommandQueue.set_maxsize: [raised (ValueError), maxsize].
set_maxsize(max, n) ==
    IF n <= 0 THEN [raised |-> TRUE, maxsize |-> max]
    ELSE [raised |-> FALSE, maxsize |-> n]

\* CommandQueue.wait_until_idle, i.e. asyncio.Queue.join: does it return
\* without waiting?
wait_until_idle(unf) == unf = 0

\* _worker's loop test: leave the loop?
worker_break(flag, q) == flag /\ q = <<>>

\* A get that hands the first entry over and leaves it in the queue.
queue_get_keeps_entry(q) == [item |-> Head(q), rest |-> q]

\* asyncio.Queue.get on a non-empty queue: the entry taken and what stays.
queue_get(q) == [item |-> Head(q), rest |-> Tail(q)]

\* What the queue's own methods and the worker leave alone.
appVars == <<ingress_limiter, config, servo>>
actuatorVars == <<drives, estopped>>
bucketVars == <<token_bucket, token_log, token_wake>>
motorVars == <<estop, motor_log>>
sensorVars == <<line_follower, line_reads>>

\* The worker tasks created so far, and those not yet finished.
Tasks == 1..generation
Live == {w \in Tasks : worker_pc[w] \in {"poll", "got", "wait", "sleep"}}

\* The worker tasks that hold an entry they took from the queue: handed over
\* by get(), waiting for the execution token, or in the duration sleep.
InHand == {w \in Tasks : worker_pc[w] \in {"got", "wait", "sleep"}}

\* The accepted commands that are gone without a drive() call: neither in the
\* queue nor in a worker's hand nor among the calls the actuator has seen.
Dropped ==
    (1..(next_id - 1))
    \ (Ids(queue) \cup {command[w].id : w \in InHand}
                  \cup {drives[i] : i \in 1..Len(drives)})

\* The concurrent callers of stop() the model follows.
StopCallers == {"A", "B"}

\* CommandQueue.start
Start ==
    /\ IF worker_task = NoTask
       THEN /\ generation < MaxStarts
            /\ generation' = generation + 1
            /\ worker_task' = generation + 1
            /\ worker_pc' = [worker_pc EXCEPT ![generation + 1] = "poll"]
       ELSE UNCHANGED <<worker_task, worker_pc, generation>>
    /\ UNCHANGED <<queue, unfinished, maxsize, shutdown, command, wake_at, stoppers,
                   enq_ret, next_id, now, execution_limiter>>
    /\ UNCHANGED actuatorVars
    /\ UNCHANGED appVars
    /\ UNCHANGED <<bucketVars, motorVars, sensorVars>>

\* CommandQueue.stop up to its first suspension.  Awaiting a task that has
\* already finished does not suspend: it returns, or re-raises the task's
\* exception (and then `_worker_task = None` is skipped).  Otherwise the
\* caller waits for the task `_worker_task` names at the time of the call.
StopCall ==
    /\ shutdown' = TRUE
    /\ CASE worker_task = NoTask ->
                UNCHANGED <<worker_task, stoppers>>
         [] worker_task # NoTask /\ worker_pc[worker_task] = "exited" ->
                /\ worker_task' = NoTask
                /\ UNCHANGED stoppers
         [] worker_task # NoTask /\ worker_pc[worker_task] = "failed" ->
                UNCHANGED <<worker_task, stoppers>>
         [] OTHER ->
                /\ Len(stoppers) < Cardinality(StopCallers)
                /\ stoppers' = Append(stoppers, [task |-> worker_task, mark |-> next_id])
                /\ UNCHANGED worker_task
    /\ UNCHANGED <<queue, unfinished, maxsize, worker_pc, command, wake_at, enq_ret,
                   next_id, generation, now, execution_limiter>>
    /\ UNCHANGED actuatorVars
    /\ UNCHANGED appVars
    /\ UNCHANGED <<bucketVars, motorVars, sensorVars>>

\* A sequence without its i-th element.
Remove(seq, i) == SubSeq(seq, 1, i - 1) \o SubSeq(seq, i + 1, Len(seq))

\* CommandQueue.stop resumed by the end of the task it awaits: `_worker_task =
\* None` after a normal exit, whatever `_worker_task` names by then; the
\* worker's exception re-raised otherwise.  The callers waiting for one task
\* resume in the order of their calls.
StopResume(i) ==
    /\ i \in 1..Len(stoppers)
    /\ worker_pc[stoppers[i].task] \in {"exited", "failed"}
    /\ \A j \in 1..(i - 1) : stoppers[j].task # stoppers[i].task
    /\ stoppers' = Remove(stoppers, i)
    /\ IF worker_pc[stoppers[i].task] = "exited"
       THEN worker_task' = NoTask
       ELSE UNCHANGED worker_task
    /\ UNCHANGED <<queue, unfinished, maxsize, shutdown, worker_pc, command, wake_at,
                   enq_ret, next_id, generation, now, execution_limiter>>
    /\ UNCHANGED actuatorVars
    /\ UNCHANGED appVars
    /\ UNCHANGED <<bucketVars, motorVars, sensorVars>>

\* CommandQueue.enqueue_drive called directly with a command of duration d.
EnqueueDrive(d) ==
    /\ next_id <= MaxCmds
    /\ LET r == enqueue_drive(queue, unfinished, maxsize,
                              [id |-> next_id, duration_s |-> d])
       IN  /\ queue' = r.queue
           /\ unfinished' = r.unfinished
           /\ enq_ret' = IF r.raised THEN QueueFull ELSE r.depth
           /\ next_id' = IF r.raised THEN next_id ELSE next_id + 1
    /\ UNCHANGED <<maxsize, shutdown, worker_task, worker_pc, command, wake_at,
                   stoppers, generation, now, execution_limiter>>
    /\ UNCHANGED actuatorVars
    /\ UNCHANGED appVars
    /\ UNCHANGED <<bucketVars, motorVars, sensorVars>>

\* CommandQueue.clear called directly.
Clear ==
    /\ LET r == clear(queue, unfinished)
       IN  queue' = r.queue /\ unfinished' = r.unfinished
    /\ UNCHANGED <<maxsize, shutdown, worker_task, worker_pc, command, wake_at,
                   stoppers, enq_ret, next_id, generation, now,
                   execution_limiter>>
    /\ UNCHANGED actuatorVars
    /\ UNCHANGED appVars
    /\ UNCHANGED <<bucketVars, motorVars, sensorVars>>

\* CommandQueue.set_maxsize(n) called directly.
SetMaxsize(n) ==
    /\ maxsize' = set_maxsize(maxsize, n).maxsize
    /\ UNCHANGED <<queue, unfinished, shutdown, worker_task, worker_pc, command,
                   wake_at, stoppers, enq_ret, next_id, generation, now,
                   execution_limiter>>
    /\ UNCHANGED actuatorVars
    /\ UNCHANGED appVars
    /\ UNCHANGED <<bucketVars, motorVars, sensorVars>>

\* ---------------------------------------------------------------- _worker
\* Worker task w ends with an exception: inner finally (task_done for the
\* entry in hand), then the outer finally's drain of queue q.
WorkerRaise(w, q, unf) ==
    LET r == drain(q, unf - 1)
    IN  /\ queue' = r.queue /\ unfinished' = r.unfinished
        /\ worker_pc' = [worker_pc EXCEPT ![w] = "failed"]
        /\ command' = [command EXCEPT ![w] = NoCommand]
        /\ wake_at' = [wake_at EXCEPT ![w] = Whole(0)]

\* The inner finally after a normal execution: task_done, then the loop head
\* in the same run of the task: with shutdown set and the queue empty the
\* loop breaks, the outer finally drains and the task ends; otherwise the
\* task suspends in wait_for(queue.get(), 0.1).
WorkerDone(w, q, unf) ==
    /\ IF worker_break(shutdown, q)
       THEN /\ LET r == drain(q, unf - 1)
               IN  queue' = r.queue /\ unfinished' = r.unfinished
            /\ worker_pc' = [worker_pc EXCEPT ![w] = "exited"]
       ELSE /\ queue' = q /\ unfinished' = unf - 1
            /\ worker_pc' = [worker_pc EXCEPT ![w] = "poll"]
    /\ command' = [command EXCEPT ![w] = NoCommand]
    /\ wake_at' = [wake_at EXCEPT ![w] = Whole(0)]

\* Lines 104-108 in task w for the entry cmd in hand, queue q, counter unf: one
\* wait_for_token iteration and, with a token, actuator.drive (raises: the
\* actuator fails).
WorkerExecute(w, cmd, q, unf, raises) ==
    LET t == wait_for_token(execution_limiter, now)
    IN  /\ execution_limiter' = t.bucket
        /\ IF ~t.ok
           THEN /\ worker_pc' = [worker_pc EXCEPT ![w] = "wait"]
                /\ command' = [command EXCEPT ![w] = cmd]
                /\ wake_at' = [wake_at EXCEPT ![w] = sleep_until(now, t.wait_time)]
                /\ queue' = q /\ unfinished' = unf
                /\ UNCHANGED drives
           ELSE /\ drives' = Append(drives, cmd.id)
                /\ IF raises
                   THEN WorkerRaise(w, q, unf)
                   ELSE IF cmd.duration_s # 0
                        THEN /\ worker_pc' = [worker_pc EXCEPT ![w] = "sleep"]
                             /\ command' = [command EXCEPT ![w] = cmd]
                             /\ wake_at' = [wake_at EXCEPT ![w] =
                                   sleep_until(now, Whole(cmd.duration_s * Second))]
                             /\ queue' = q /\ unfinished' = unf
                        ELSE WorkerDone(w, q, unf)

\* The loop head of task w: break (and drain) when shutdown is set and the
\* queue is empty, else wait_for(queue.get(), 0.1): the inner task takes the
\* next entry and the worker is resumed with it in a later run of the event
\* loop.  With an empty queue and no shutdown the poll times out and the loop
\* repeats: no state change.
WorkerPoll(w) ==
    /\ worker_pc[w] = "poll"
    /\ IF worker_break(shutdown, queue)
       THEN /\ LET r == drain(queue, unfinished)
               IN  queue' = r.queue /\ unfinished' = r.unfinished
            /\ worker_pc' = [worker_pc EXCEPT ![w] = "exited"]
            /\ UNCHANGED command
       ELSE /\ queue # <<>>
            /\ command' = [command EXCEPT ![w] = queue_get(queue).item]
            /\ queue' = queue_get(queue).rest
            /\ worker_pc' = [worker_pc EXCEPT ![w] = "got"]
            /\ UNCHANGED unfinished
    /\ UNCHANGED <<maxsize, shutdown, worker_task, wake_at, stoppers, enq_ret,
                   next_id, drives, estopped, generation, now, execution_limiter>>
    /\ UNCHANGED appVars
    /\ UNCHANGED <<bucketVars, motorVars, sensorVars>>

\* Task w resumes with the entry it was handed: lines 102-108.  The event
\* loop runs its callbacks in the order they were scheduled, so of the tasks
\* that were handed an entry the one handed the earliest entry resumes first.
WorkerGot(w) ==
    /\ worker_pc[w] = "got"
    /\ \A v \in Tasks : worker_pc[v] = "got" => command[v].id >= command[w].id
    /\ \E raises \in BOOLEAN : WorkerExecute(w, command[w], queue, unfinished, raises)
    /\ UNCHANGED <<maxsize, shutdown, worker_task, stoppers, enq_ret,
                   next_id, estopped, generation, now>>
    /\ UNCHANGED appVars
    /\ UNCHANGED <<bucketVars, motorVars, sensorVars>>

\* wait_for_token's sleep is over in task w: the next iteration of its loop.
WorkerRetryToken(w) ==
    /\ worker_pc[w] = "wait"
    /\ sleep_over(now, wake_at[w])
    /\ \E raises \in BOOLEAN : WorkerExecute(w, command[w], queue, unfinished, raises)
    /\ UNCHANGED <<maxsize, shutdown, worker_task, stoppers, enq_ret,
                   next_id, estopped, generation, now>>
    /\ UNCHANGED appVars
    /\ UNCHANGED <<bucketVars, motorVars, sensorVars>>

\* The duration sleep of task w is over: actuator.stop(), then the inner finally.
WorkerDurationElapsed(w) ==
    /\ worker_pc[w] = "sleep"
    /\ sleep_over(now, wake_at[w])
    /\ \E raises \in BOOLEAN :
          IF raises THEN WorkerRaise(w, queue, unfinished)
                    ELSE WorkerDone(w, queue, unfinished)
    /\ UNCHANGED <<maxsize, shutdown, worker_task, stoppers, enq_ret,
                   next_id, drives, estopped, generation, now, execution_limiter>>
    /\ UNCHANGED appVars
    /\ UNCHANGED <<bucketVars, motorVars, sensorVars>>

\* The deadlines of the sleeps in progress.
Sleeping ==
    {wake_at[w] : w \in {v \in 1..MaxStarts : worker_pc[v] \in {"wait", "sleep"}}}
    \cup {token_wake[k][1] : k \in {j \in 1..MaxWaiters : token_wake[j] # <<>>}}

\* Every sleep in progress ends at a whole number of ticks.
DeadlinesWhole == \A deadline \in Sleeping : deadline.den = 1

\* time.monotonic() advances: to the next whole second, or to the deadline of
\* the sleep that ends first when that is sooner.  The clock never passes a
\* deadline: one between two ticks would stop it.
Tick ==
    /\ now < MaxTime * Second
    /\ DeadlinesWhole
    /\ LET next_second == (now \div Second + 1) * Second
           instants == {next_second} \cup
                       {t \in {deadline.num : deadline \in Sleeping} :
                           t > now /\ t < next_second}
       IN  now' = CHOOSE t \in instants : \A u \in instants : t <= u
    /\ UNCHANGED <<queue, unfinished, maxsize, shutdown, worker_task, worker_pc,
                   command, wake_at, stoppers, enq_ret, next_id,
                   generation, execution_limiter>>
    /\ UNCHANGED actuatorVars
    /\ UNCHANGED appVars
    /\ UNCHANGED <<bucketVars, motorVars, sensorVars>>

\* ------------------------------------------------------ ControlServiceApp
\* An optional value (a header, a JSON field): <<>> is absent / None, <<v>> is v.
None == <<>>

\* ipaddress.ip_address on the client strings the requests use: the four
\* octets, or <<>> for the ValueError of a malformed address.
ip_address(s) ==
    CASE s = "127.0.0.1" -> <<127, 0, 0, 1>>
      [] s = "8.8.8.8" -> <<8, 8, 8, 8>>
      [] OTHER -> <<>>

\* `ip_obj in network` for a network [address, prefixlen] on an octet boundary.
in_network(ip, network) ==
    \A i \in 1..(network.prefixlen \div 8) : ip[i] = network.address[i]

\* _authenticate with the address checks ahead of the key check.
authenticate_address_first(headers, cfg) ==
    LET client_ip == IF headers.forwarded # <<>>
                     THEN headers.forwarded[1] ELSE "127.0.0.1"
        ip_obj == ip_address(client_ip)
    IN  IF ip_obj = <<>>
        THEN 400
        ELSE IF ~(\E i \in 1..Len(cfg.allowed_networks) :
                     in_network(ip_obj, cfg.allowed_networks[i]))
             THEN 403
             ELSE IF headers.api_key = <<>> \/ headers.api_key[1] \notin cfg.api_keys
                  THEN 401
                  ELSE 0

\* _authenticate taking the last entry of X-Forwarded-For as the client.
authenticate_last_forwarded(headers, cfg) ==
    IF headers.api_key = <<>> \/ headers.api_key[1] \notin cfg.api_keys
    THEN 401
    ELSE LET client_ip == IF headers.forwarded # <<>>
                          THEN headers.forwarded[Len(headers.forwarded)]
                          ELSE "127.0.0.1"
             ip_obj == ip_address(client_ip)
         IN  IF ip_obj = <<>>
             THEN 400
             ELSE IF ~(\E i \in 1..Len(cfg.allowed_networks) :
                          in_network(ip_obj, cfg.allowed_networks[i]))
                  THEN 403
                  ELSE 0

\* ControlServiceApp._authenticate: the status code of the error Response, 0 for None.
\* headers.forwarded holds X-Forwarded-For already split at its commas.
authenticate(headers, cfg) ==
    IF headers.api_key = None \/ headers.api_key[1] \notin cfg.api_keys
    THEN 401
    ELSE LET client_ip == IF headers.forwarded # None
                          THEN headers.forwarded[1] ELSE "127.0.0.1"
             ip_obj == ip_address(client_ip)
         IN  IF ip_obj = <<>>
             THEN 400
             ELSE IF ~(\E i \in 1..Len(cfg.allowed_networks) :
                          in_network(ip_obj, cfg.allowed_networks[i]))
                  THEN 403
                  ELSE 0

\* str.upper on the request methods.
upper(method) ==
    CASE method = "post" -> "POST"
      [] OTHER -> method

\* ControlServiceApp._routes
Routes ==
    {<<"POST", "/drive/differential", "_handle_drive">>,
     <<"POST", "/drive/stop", "_handle_stop">>,
     <<"POST", "/drive/brake", "_handle_brake">>,
     <<"POST", "/drive/emergency-stop", "_handle_estop">>,
     <<"POST", "/drive/reset", "_handle_reset">>,
     <<"POST", "/pan-tilt/position", "_handle_pan_tilt">>,
     <<"GET", "/telemetry/ultrasonic", "_handle_ultrasonic">>,
     <<"GET", "/telemetry/line", "_handle_line">>,
     <<"GET", "/config", "_handle_get_config">>,
     <<"PATCH", "/config", "_handle_patch_config">>}

\* self._routes.get((method.upper(), path)): the handler's name, or "None".
routes_get(method, path) ==
    IF \E r \in Routes : r[1] = method /\ r[2] = path
    THEN (CHOOSE r \in Routes : r[1] = method /\ r[2] = path)[3]
    ELSE "None"

Response(code, body) == [status_code |-> code, body |-> body]

\* ControlServiceConfig.snapshot
snapshot(cfg) ==
    [ingress_rate_limit |-> cfg.ingress_rate_limit,
     execution_rate_limit |-> cfg.execution_rate_limit,
     queue_maxsize |-> cfg.queue_maxsize,
     allowed_networks |-> cfg.allowed_networks]

\* ControlServiceApp._validate_speed, speeds in tenths: valid?
validate_speed(value) == value # None /\ value[1] >= -10 /\ value[1] <= 10

\* The duration_s check of _handle_drive, in seconds: valid?
validate_duration(duration) == duration = None \/ duration[1] > 0

\* RateLimitSettings.__post_init__ and TokenBucket.configure: the same two checks.
rate_limit_valid(rate, burst) == ~not_positive(rate) /\ ~(burst <= 0)

\* TokenBucket.configure with valid parameters.
configure(b, rate, capacity) ==
    [b EXCEPT !.rate_per_second = rate, !.capacity = capacity]

\* configure that checks the rate and not the capacity.
configure_call_rate_checked(b, rate, capacity) ==
    IF rate <= 0
    THEN [raised |-> TRUE, bucket |-> b]
    ELSE [raised |-> FALSE, bucket |-> configure(b, rate, capacity)]

\* TokenBucket.configure as it is called: [raised (ValueError), bucket].
configure_call(b, rate, capacity) ==
    IF not_positive(rate) \/ capacity <= 0
    THEN [raised |-> TRUE, bucket |-> b]
    ELSE [raised |-> FALSE, bucket |-> configure(b, rate, capacity)]

\* The objects a handler reads and writes, as one value.
AppState ==
    [queue |-> queue, unfinished |-> unfinished, maxsize |-> maxsize,
     next_id |-> next_id, estopped |-> estopped, servo |-> servo,
     ingress_limiter |-> ingress_limiter, execution_limiter |-> execution_limiter,
     config |-> config]

\* What a handler does: the state it leaves, its Response, the exception it
\* raises ("" for none) and the calls it made on its collaborators, in order.
Result(st, response, calls) ==
    [state |-> st, response |-> response, error |-> "", calls |-> calls]
Raised(st, error, calls) ==
    [state |-> st, response |-> Response(0, "none"), error |-> error, calls |-> calls]

\* _handle_drive with the enqueue ahead of the ingress check.
handle_drive_capacity_first(st, payload, t) ==
    IF ~validate_speed(payload.left_speed)
       \/ ~validate_speed(payload.right_speed)
       \/ ~validate_duration(payload.duration_s)
    THEN Raised(st, "ValueError", <<>>)
    ELSE LET cmd == [id |-> st.next_id,
                     duration_s |-> IF payload.duration_s = None THEN 0
                                    ELSE payload.duration_s[1]]
             r == enqueue_drive(st.queue, st.unfinished, st.maxsize, cmd)
             a == allow(st.ingress_limiter, t)
             s1 == [st EXCEPT !.ingress_limiter = a.bucket]
         IN  IF r.raised
             THEN Result(st, Response(503, "Drive command queue is full"),
                         <<"command_queue.enqueue_drive">>)
             ELSE IF ~a.ok
                  THEN Result(s1, Response(429, "Command rate limit exceeded"),
                              <<"command_queue.enqueue_drive", "ingress_limiter.allow">>)
                  ELSE Result([s1 EXCEPT !.queue = r.queue,
                                         !.unfinished = r.unfinished,
                                         !.next_id = @ + 1],
                              Response(202, [status |-> "queued", queue_depth |-> r.depth]),
                              <<"command_queue.enqueue_drive", "ingress_limiter.allow">>)

\* _handle_drive that refuses a command while the actuator is latched.
handle_drive_refuses_when_latched(st, payload, t) ==
    IF ~validate_speed(payload.left_speed)
       \/ ~validate_speed(payload.right_speed)
       \/ ~validate_duration(payload.duration_s)
    THEN Raised(st, "ValueError", <<>>)
    ELSE IF st.estopped
    THEN Result(st, Response(409, "Emergency stop is latched"), <<>>)
    ELSE LET a == allow(st.ingress_limiter, t)
             s1 == [st EXCEPT !.ingress_limiter = a.bucket]
             cmd == [id |-> st.next_id,
                     duration_s |-> IF payload.duration_s = None THEN 0
                                    ELSE payload.duration_s[1]]
             r == enqueue_drive(st.queue, st.unfinished, st.maxsize, cmd)
         IN  IF ~a.ok
             THEN Result(s1, Response(429, "Command rate limit exceeded"),
                         <<"ingress_limiter.allow">>)
             ELSE IF r.raised
                  THEN Result(s1, Response(503, "Drive command queue is full"),
                              <<"ingress_limiter.allow", "command_queue.enqueue_drive">>)
                  ELSE Result([s1 EXCEPT !.queue = r.queue,
                                         !.unfinished = r.unfinished,
                                         !.next_id = @ + 1],
                              Response(202, [status |-> "queued", queue_depth |-> r.depth]),
                              <<"ingress_limiter.allow", "command_queue.enqueue_drive">>)

\* _handle_drive at time t.
handle_drive(st, payload, t) ==
    IF ~validate_speed(payload.left_speed)
       \/ ~validate_speed(payload.right_speed)
       \/ ~validate_duration(payload.duration_s)
    THEN Raised(st, "ValueError", <<>>)
    ELSE LET a == allow(st.ingress_limiter, t)
             s1 == [st EXCEPT !.ingress_limiter = a.bucket]
             cmd == [id |-> st.next_id,
                     duration_s |-> IF payload.duration_s = None THEN 0
                                    ELSE payload.duration_s[1]]
             r == enqueue_drive(st.queue, st.unfinished, st.maxsize, cmd)
         IN  IF ~a.ok
             THEN Result(s1, Response(429, "Command rate limit exceeded"),
                         <<"ingress_limiter.allow">>)
             ELSE IF r.raised
                  THEN Result(s1, Response(503, "Drive command queue is full"),
                              <<"ingress_limiter.allow", "command_queue.enqueue_drive">>)
                  ELSE Result([s1 EXCEPT !.queue = r.queue,
                                         !.unfinished = r.unfinished,
                                         !.next_id = @ + 1],
                              Response(202, [status |-> "queued", queue_depth |-> r.depth]),
                              <<"ingress_limiter.allow", "command_queue.enqueue_drive">>)

\* _handle_stop that takes an execution token for its actuator call.
handle_stop_takes_execution_token(st) ==
    LET r == clear(st.queue, st.unfinished)
    IN  Result([st EXCEPT !.queue = r.queue, !.unfinished = r.unfinished,
                          !.execution_limiter.tokens = Max(0, @ - OneToken)],
               Response(200, [status |-> "stopped"]),
               <<"motor_controller.stop", "command_queue.clear">>)

\* _handle_stop
handle_stop(st) ==
    LET r == clear(st.queue, st.unfinished)
    IN  Result([st EXCEPT !.queue = r.queue, !.unfinished = r.unfinished],
               Response(200, [status |-> "stopped"]),
               <<"motor_controller.stop", "command_queue.clear">>)

\* _handle_brake
handle_brake(st) ==
    LET r == clear(st.queue, st.unfinished)
    IN  Result([st EXCEPT !.queue = r.queue, !.unfinished = r.unfinished],
               Response(200, [status |-> "braking"]),
               <<"motor_controller.brake", "command_queue.clear">>)

\* _handle_estop in _handle_stop's order: the actuator first, then the queue.
handle_estop_latch_first(st) ==
    LET r == clear(st.queue, st.unfinished)
        s1 == [st EXCEPT !.estopped = TRUE]
    IN  Result([s1 EXCEPT !.queue = r.queue, !.unfinished = r.unfinished],
               Response(200, [status |-> "estop"]),
               <<"motor_controller.emergency_stop", "command_queue.clear">>)

\* _handle_estop: queue.clear(), then actuator.emergency_stop().
handle_estop(st) ==
    LET r == clear(st.queue, st.unfinished)
        s1 == [st EXCEPT !.queue = r.queue, !.unfinished = r.unfinished]
    IN  Result([s1 EXCEPT !.estopped = TRUE],
               Response(200, [status |-> "estop"]),
               <<"command_queue.clear", "motor_controller.emergency_stop">>)

\* _handle_reset
handle_reset(st) ==
    Result([st EXCEPT !.estopped = FALSE], Response(200, [status |-> "ready"]),
           <<"motor_controller.reset_estop">>)

\* _handle_pan_tilt, angles in degrees.
handle_pan_tilt(st, payload) ==
    IF payload.pan_deg = None \/ payload.pan_deg[1] < -90 \/ payload.pan_deg[1] > 90
    THEN Raised(st, "ValueError", <<>>)
    ELSE IF payload.tilt_deg = None \/ payload.tilt_deg[1] < -45 \/ payload.tilt_deg[1] > 45
         THEN Raised(st, "ValueError", <<>>)
         ELSE LET moved == [pan |-> payload.pan_deg[1], tilt |-> payload.tilt_deg[1]]
              IN  Result([st EXCEPT !.servo = moved],
                         Response(200, [pan_deg |-> moved.pan, tilt_deg |-> moved.tilt]),
                         <<"servo_controller.move_to">>)

\* _handle_ultrasonic
handle_ultrasonic(st) ==
    Result(st, Response(200, "ultrasonic"), <<"ultrasonic_ranger.read">>)

\* _handle_line
handle_line(st) ==
    Result(st, Response(200, "line"), <<"line_follower.read">>)

\* _handle_get_config
handle_get_config(st) == Result(st, Response(200, snapshot(st.config)), <<>>)

\* A JSON value of a PATCH /config body: a number; the float NaN (or the text
\* "nan"); a text that is no number; a list (or, inside an object, null).
Num(n) == [kind |-> "number", num |-> n]
JsonNaN == [kind |-> "nan", num |-> 0]
JsonText == [kind |-> "text", num |-> 0]
JsonList == [kind |-> "list", num |-> 0]

\* What a conversion gives: the exception it raises ("" for none) and its value.
Converted(error, value) == [error |-> error, value |-> value]

\* float(v)
float(v) ==
    CASE v.kind = "number" -> Converted("", v.num)
      [] v.kind = "nan" -> Converted("", NaN)
      [] v.kind = "text" -> Converted("ValueError", 0)
      [] v.kind = "list" -> Converted("TypeError", 0)

\* int(v)
int(v) ==
    CASE v.kind = "number" -> Converted("", v.num)
      [] v.kind = "nan" -> Converted("ValueError", 0)
      [] v.kind = "text" -> Converted("ValueError", 0)
      [] v.kind = "list" -> Converted("TypeError", 0)

\* RateLimitSettings(rate_per_second=float(obj["rate_per_second"]),
\*                   burst=int(obj["burst"])): the arguments left to right,
\* then __post_init__.
RateLimitSettings(obj) ==
    IF "rate_per_second" \notin DOMAIN obj THEN Converted("KeyError", 0)
    ELSE LET rate == float(obj.rate_per_second)
         IN  IF rate.error # "" THEN rate
             ELSE IF "burst" \notin DOMAIN obj THEN Converted("KeyError", 0)
             ELSE LET burst == int(obj.burst)
                  IN  IF burst.error # "" THEN burst
                      ELSE IF ~rate_limit_valid(rate.value, burst.value)
                           THEN Converted("ValueError", 0)
                           ELSE Converted("", [rate_per_second |-> rate.value,
                                               burst |-> burst.value])

\* _handle_patch_config's three blocks, each on the result r of the one before.
patch_ingress(r, ingress) ==
    IF ingress = None THEN r
    ELSE LET settings == RateLimitSettings(ingress[1])
         IN  IF settings.error # ""
             THEN [r EXCEPT !.error = settings.error]
             ELSE [r EXCEPT !.state.config.ingress_rate_limit = settings.value,
                            !.state.ingress_limiter =
                                configure(@, settings.value.rate_per_second,
                                          settings.value.burst),
                            !.calls = Append(@, "ingress_limiter.configure")]

\* The execution block that applies the object to both limits.
patch_execution_both_limits(r, execution) ==
    IF execution = None THEN r
    ELSE LET settings == RateLimitSettings(execution[1])
         IN  IF settings.error # ""
             THEN [r EXCEPT !.error = settings.error]
             ELSE [r EXCEPT !.state.config.execution_rate_limit = settings.value,
                            !.state.config.ingress_rate_limit = settings.value,
                            !.state.execution_limiter =
                                configure(@, settings.value.rate_per_second,
                                          settings.value.burst),
                            !.state.ingress_limiter =
                                configure(@, settings.value.rate_per_second,
                                          settings.value.burst),
                            !.calls = Append(@, "execution_limiter.configure")]

patch_execution(r, execution) ==
    IF execution = None THEN r
    ELSE LET settings == RateLimitSettings(execution[1])
         IN  IF settings.error # ""
             THEN [r EXCEPT !.error = settings.error]
             ELSE [r EXCEPT !.state.config.execution_rate_limit = settings.value,
                            !.state.execution_limiter =
                                configure(@, settings.value.rate_per_second,
                                          settings.value.burst),
                            !.calls = Append(@, "execution_limiter.configure")]

\* The queue_maxsize block without the call of set_maxsize.
patch_queue_maxsize_config_only(r, queue_maxsize) ==
    IF queue_maxsize = None THEN r
    ELSE LET queue_value == int(queue_maxsize[1])
         IN  IF queue_value.error # ""
             THEN [r EXCEPT !.error = queue_value.error]
             ELSE IF queue_value.value <= 0
                  THEN [r EXCEPT !.error = "ValueError"]
                  ELSE [r EXCEPT !.state.config.queue_maxsize = queue_value.value]

patch_queue_maxsize(r, queue_maxsize) ==
    IF queue_maxsize = None THEN r
    ELSE LET queue_value == int(queue_maxsize[1])
         IN  IF queue_value.error # ""
             THEN [r EXCEPT !.error = queue_value.error]
             ELSE IF queue_value.value <= 0
                  THEN [r EXCEPT !.error = "ValueError"]
                  ELSE [r EXCEPT !.state.config.queue_maxsize = queue_value.value,
                                 !.state.maxsize = queue_value.value,
                                 !.calls = Append(@, "command_queue.set_maxsize")]

\* _handle_patch_config: the blocks in order; an exception ends the handler
\* where it is raised, with what the earlier blocks did left in place.
handle_patch_config(st, payload) ==
    LET r0 == Raised(st, "", <<>>)
        r1 == patch_ingress(r0, payload.ingress_rate_limit)
        r2 == IF r1.error # "" THEN r1
              ELSE patch_execution(r1, payload.execution_rate_limit)
        r3 == IF r2.error # "" THEN r2
              ELSE patch_queue_maxsize(r2, payload.queue_maxsize)
    IN  IF r3.error # "" THEN r3
        ELSE [r3 EXCEPT !.response = Response(200, snapshot(r3.state.config))]

\* The handler `route` names, on the request's JSON.
call_route(route, st, json, t) ==
    CASE route = "_handle_drive" -> handle_drive(st, json, t)
      [] route = "_handle_stop" -> handle_stop(st)
      [] route = "_handle_brake" -> handle_brake(st)
      [] route = "_handle_estop" -> handle_estop(st)
      [] route = "_handle_reset" -> handle_reset(st)
      [] route = "_handle_pan_tilt" -> handle_pan_tilt(st, json)
      [] route = "_handle_ultrasonic" -> handle_ultrasonic(st)
      [] route = "_handle_line" -> handle_line(st)
      [] route = "_handle_get_config" -> handle_get_config(st)
      [] route = "_handle_patch_config" -> handle_patch_config(st, json)

\* handle_request with the route looked up ahead of _authenticate.
handle_request_route_first(st, req, t) ==
    LET auth_error == authenticate(req.headers, st.config)
        route == routes_get(upper(req.method), req.path)
    IN  IF route = "None"
        THEN Result(st, Response(404, "Not Found"), <<>>)
        ELSE IF auth_error # 0
             THEN Result(st, Response(auth_error, "detail"), <<>>)
             ELSE LET result == call_route(route, st, req.json, t)
                  IN  IF result.error = "ValueError"
                      THEN [result EXCEPT !.response = Response(422, "detail"),
                                          !.error = ""]
                      ELSE result

\* ControlServiceApp.handle_request at time t.
handle_request(st, req, t) ==
    LET auth_error == authenticate(req.headers, st.config)
        route == routes_get(upper(req.method), req.path)
    IN  IF auth_error # 0
        THEN Result(st, Response(auth_error, "detail"), <<>>)
        ELSE IF route = "None"
             THEN Result(st, Response(404, "Not Found"), <<>>)
             ELSE LET result == call_route(route, st, req.json, t)
                  IN  IF result.error = "ValueError"
                      THEN [result EXCEPT !.response = Response(422, "detail"),
                                          !.error = ""]
                      ELSE result

\* A request is handled.  No handler suspends between its calls on the queue,
\* the limiters and the actuator, so the worker sees the handler as one step.
HandleRequest(req) ==
    \E out \in {handle_request(AppState, req, now)} :
        /\ out.state.next_id <= MaxCmds + 1
        /\ queue' = out.state.queue
        /\ unfinished' = out.state.unfinished
        /\ maxsize' = out.state.maxsize
        /\ next_id' = out.state.next_id
        /\ estopped' = out.state.estopped
        /\ servo' = out.state.servo
        /\ ingress_limiter' = out.state.ingress_limiter
        /\ execution_limiter' = out.state.execution_limiter
        /\ config' = out.state.config
        /\ UNCHANGED <<shutdown, worker_task, worker_pc, command, wake_at, stoppers,
                       enq_ret, drives, generation, now>>
        /\ UNCHANGED <<bucketVars, motorVars, sensorVars>>

\* --------------------------------------------------------------- requests
GoodHeaders == [api_key |-> <<"test-key">>, forwarded |-> None]
BadKeyHeaders ==
    [api_key : {None, <<"wrong-key">>},
     forwarded : {None, <<"8.8.8.8", "127.0.0.1">>, <<"not-an-ip">>}]
BadAddressHeaders ==
    [api_key : {<<"test-key">>},
     forwarded : {<<"127.0.0.1", "8.8.8.8">>, <<"8.8.8.8", "127.0.0.1">>, <<"not-an-ip">>}]

Durations == {None, <<0>>} \cup {<<d>> : d \in DurationSeconds}

DrivePayloads ==
    [left_speed : {<<5>>}, right_speed : {<<-2>>}, duration_s : Durations]
    \cup [left_speed : {None, <<15>>}, right_speed : {<<2>>}, duration_s : {None}]
    \cup [left_speed : {<<1>>}, right_speed : {<<-11>>}, duration_s : {None}]

PanTiltPayloads ==
    [pan_deg : {<<10>>, <<120>>}, tilt_deg : {<<-5>>}]
    \cup [pan_deg : {<<0>>}, tilt_deg : {None, <<50>>}]

PatchPayloads ==
    [ingress_rate_limit : {None}, execution_rate_limit : {None},
     queue_maxsize : {<<Num(n)>> : n \in 0..MaxQueue}]

\* PATCH /config bodies that carry rate-limit fields beside queue_maxsize.
RateLimitPatches ==
    {None} \cup {<<[rate_per_second |-> Num(r), burst |-> Num(b)]>> :
                    r \in Rates, b \in Bursts}

ConfigPatches ==
    [ingress_rate_limit : RateLimitPatches, execution_rate_limit : RateLimitPatches,
     queue_maxsize : {None} \cup {<<Num(n)>> : n \in 0..MaxQueue}]

EmptyRoutes ==
    {<<"POST", "/drive/stop">>, <<"POST", "/drive/brake">>,
     <<"POST", "/drive/emergency-stop">>, <<"POST", "/drive/reset">>,
     <<"GET", "/telemetry/ultrasonic">>, <<"GET", "/telemetry/line">>,
     <<"GET", "/config">>, <<"GET", "/does-not-exist">>, <<"GET", "/drive/stop">>,
     <<"post", "/drive/stop">>}

Request(method, path, json, headers) ==
    [method |-> method, path |-> path, json |-> json, headers |-> headers]

\* Every request body, with the headers h.
RequestsWith(h) ==
    {Request("POST", "/drive/differential", j, h) : j \in DrivePayloads}
    \cup {Request("POST", "/pan-tilt/position", j, h) : j \in PanTiltPayloads}
    \cup {Request("PATCH", "/config", j, h) : j \in PatchPayloads}
    \cup {Request(r[1], r[2], None, h) : r \in EmptyRoutes}

\* The requests the claims range over: every body under every header set.
Requests ==
    RequestsWith(GoodHeaders)
    \cup UNION {RequestsWith(h) : h \in BadKeyHeaders \cup BadAddressHeaders}

\* The requests the service is driven with: every body from an admitted client,
\* and the state-changing routes from each kind of rejected client (a rejected
\* request changes nothing, whatever its body).
RejectedHeaders ==
    {[api_key |-> <<"wrong-key">>, forwarded |-> None],
     [api_key |-> <<"test-key">>, forwarded |-> <<"not-an-ip">>],
     [api_key |-> <<"test-key">>, forwarded |-> <<"8.8.8.8", "127.0.0.1">>]}

DrivenRequests ==
    RequestsWith(GoodHeaders)
    \cup {Request("POST", "/drive/emergency-stop", None, h) : h \in RejectedHeaders}

\* ------------------------------------------------------------------ Init
\* ControlServiceConfig as the service is constructed with it.
InitConfigs ==
    [api_keys : {{"test-key"}},
     allowed_networks : {<<[address |-> <<127, 0, 0, 0>>, prefixlen |-> 8]>>},
     ingress_rate_limit : [rate_per_second : Rates, burst : Bursts],
     execution_rate_limit : [rate_per_second : Rates, burst : Bursts],
     queue_maxsize : 1..MaxQueue]

\* CommandQueue.__init__, with the limiter and the actuator it is given.
InitQueue(cfg) ==
    /\ queue = <<>> /\ unfinished = 0 /\ maxsize = cfg.queue_maxsize
    /\ shutdown = FALSE /\ worker_task = NoTask
    /\ worker_pc = [w \in 1..MaxStarts |-> "nil"]
    /\ command = [w \in 1..MaxStarts |-> NoCommand]
    /\ wake_at = [w \in 1..MaxStarts |-> Whole(0)]
    /\ stoppers = <<>>
    /\ enq_ret = 0 /\ next_id = 1 /\ drives = <<>> /\ estopped = FALSE
    /\ generation = 0 /\ now = 0
    /\ execution_limiter = TokenBucket(cfg.execution_rate_limit.rate_per_second,
                                       cfg.execution_rate_limit.burst, 0)

\* ControlServiceApp.__init__
InitApp(cfg) ==
    /\ config = cfg
    /\ ingress_limiter = TokenBucket(cfg.ingress_rate_limit.rate_per_second,
                                     cfg.ingress_rate_limit.burst, 0)
    /\ servo = [pan |-> 0, tilt |-> 0]

\* TokenBucket.__init__ for the bucket used on its own; nobody has called it.
InitBucket(rate, capacity) ==
    /\ token_bucket = TokenBucket(rate, capacity, 0)
    /\ token_log = <<>>
    /\ token_wake = [k \in 1..MaxWaiters |-> None]

\* ------------------------------------------------------------ LineFollower
\* Normalised readings and thresholds are in units of 1/FullScale; ema_alpha
\* is in halves (1 is 0.5, 2 is 1.0).  With raw readings and calibrations
\* as below every value the filter computes in MaxReads reads is a whole
\* number of units.
FullScale == 64

\* LineFollower._normalize
normalize(value, bounds) ==
    IF bounds[2] <= bounds[1]
    THEN 0
    ELSE Max(0, Min(FullScale,
                    ((value - bounds[1]) * FullScale) \div (bounds[2] - bounds[1])))

\* LineFollower._apply_ema, previous None before the first reading.
apply_ema(ema_alpha, previous, current) ==
    IF previous = None
    THEN current
    ELSE (ema_alpha * current + (2 - ema_alpha) * previous[1]) \div 2

\* on_line that follows the active threshold alone.
update_hysteresis_single_threshold(lf) ==
    [lf EXCEPT !.on_line = \/ lf.ema_left[1] >= lf.active_threshold
                           \/ lf.ema_right[1] >= lf.active_threshold]

\* LineFollower._update_hysteresis
update_hysteresis(lf) ==
    IF ~lf.on_line
    THEN IF \/ lf.ema_left[1] >= lf.active_threshold
            \/ lf.ema_right[1] >= lf.active_threshold
         THEN [lf EXCEPT !.on_line = TRUE]
         ELSE lf
    ELSE IF /\ lf.ema_left[1] < lf.inactive_threshold
            /\ lf.ema_right[1] < lf.inactive_threshold
         THEN [lf EXCEPT !.on_line = FALSE]
         ELSE lf

\* LineFollower.read with the raw readings its two readers return: the
\* follower it leaves and the LineTelemetry it returns.
read(lf, raw_left, raw_right) ==
    LET normalized_left == normalize(raw_left, lf.calibration_left)
        normalized_right == normalize(raw_right, lf.calibration_right)
        smoothed == [lf EXCEPT
                        !.ema_left = <<apply_ema(lf.ema_alpha, @, normalized_left)>>,
                        !.ema_right = <<apply_ema(lf.ema_alpha, @, normalized_right)>>]
        after == update_hysteresis(smoothed)
    IN  [follower |-> after,
         telemetry |-> [left |-> after.ema_left[1], right |-> after.ema_right[1],
                        on_line |-> after.on_line]]

\* LineFollower.set_calibration, None for an argument left out.
set_calibration(lf, left, right) ==
    [lf EXCEPT !.calibration_left = IF left # None THEN left[1] ELSE @,
               !.calibration_right = IF right # None THEN right[1] ELSE @]

\* LineFollower.__init__; the default calibration is (0.0, 1.0).
LineFollower(left, right, ema_alpha, active_threshold, inactive_threshold) ==
    [ema_alpha |-> ema_alpha,
     active_threshold |-> active_threshold,
     inactive_threshold |-> inactive_threshold,
     calibration_left |-> left,
     calibration_right |-> right,
     ema_left |-> None, ema_right |-> None, on_line |-> FALSE]

\* A LineFollower with the constructor's defaults for alpha, nobody reads it.
InitLine ==
    /\ line_follower = LineFollower(<<0, 4>>, <<0, 4>>, 1, 38, 26)
    /\ line_reads = 0

\* CamJamMotorController.__init__
InitMotor ==
    /\ estop = FALSE
    /\ motor_log = <<>>

\* The service: requests through handle_request, the worker, the clock.
Init ==
    \E cfg \in InitConfigs :
        /\ cfg.execution_rate_limit = [rate_per_second |-> 1, burst |-> 1]
        /\ InitQueue(cfg) /\ InitApp(cfg) /\ InitBucket(1, 1) /\ InitMotor /\ InitLine

Next ==
    \/ Start
    \/ \E req \in DrivenRequests : HandleRequest(req)
    \/ \E w \in Tasks : WorkerPoll(w)
    \/ \E w \in Tasks : WorkerGot(w)
    \/ \E w \in Tasks : WorkerRetryToken(w)
    \/ \E w \in Tasks : WorkerDurationElapsed(w)
    \/ Tick

Spec == Init /\ [][Next]_vars

\* A CommandQueue with its execution limiter and actuator, driven through its
\* own methods (the unit tests' setting), by callers that do not call stop()
\* while another stop() is still waiting.
InitQ ==
    \E cfg \in InitConfigs :
        /\ cfg.ingress_rate_limit = [rate_per_second |-> 1, burst |-> 1]
        /\ InitQueue(cfg) /\ InitApp(cfg) /\ InitBucket(1, 1) /\ InitMotor /\ InitLine

NextQ ==
    \/ Start
    \/ (stoppers = <<>> /\ StopCall)
    \/ \E i \in 1..Len(stoppers) : StopResume(i)
    \/ \E d \in {0} \cup DurationSeconds : EnqueueDrive(d)
    \/ Clear
    \/ \E w \in Tasks : WorkerPoll(w)
    \/ \E w \in Tasks : WorkerGot(w)
    \/ \E w \in Tasks : WorkerRetryToken(w)
    \/ \E w \in Tasks : WorkerDurationElapsed(w)
    \/ Tick

SpecQueue == InitQ /\ [][NextQ]_vars

\* The same CommandQueue with stop() also called while an earlier stop() is
\* waiting for the worker (two tasks that each restart the queue).
InitL ==
    \E cfg \in InitConfigs :
        /\ cfg.ingress_rate_limit = [rate_per_second |-> 1, burst |-> 1]
        /\ cfg.execution_rate_limit.burst = 1
        /\ InitQueue(cfg) /\ InitApp(cfg) /\ InitBucket(1, 1) /\ InitMotor /\ InitLine

NextL ==
    \/ Start
    \/ StopCall
    \/ \E i \in 1..Len(stoppers) : StopResume(i)
    \/ \E d \in {0} \cup DurationSeconds : EnqueueDrive(d)
    \/ Clear
    \/ \E w \in Tasks : WorkerPoll(w)
    \/ \E w \in Tasks : WorkerGot(w)
    \/ \E w \in Tasks : WorkerRetryToken(w)
    \/ \E w \in Tasks : WorkerDurationElapsed(w)
    \/ Tick

SpecLifecycle == InitL /\ [][NextL]_vars

\* A CommandQueue whose limit is changed while it is in use: set_maxsize with
\* limits below, at and above the depth, and with limits it refuses.
MaxsizeArgs == (-1)..MaxQueue

NextM ==
    \/ Start
    \/ \E d \in {0} \cup DurationSeconds : EnqueueDrive(d)
    \/ Clear
    \/ \E n \in MaxsizeArgs : SetMaxsize(n)
    \/ \E w \in Tasks : WorkerPoll(w)
    \/ \E w \in Tasks : WorkerGot(w)
    \/ \E w \in Tasks : WorkerRetryToken(w)
    \/ \E w \in Tasks : WorkerDurationElapsed(w)
    \/ Tick

SpecMaxsize == InitQ /\ [][NextM]_vars

\* The service as its clients see it, admitted and refused: drive and stop
\* requests under every combination of key and forwarded address, the worker,
\* the clock.
AccessRequests ==
    UNION {{Request("POST", "/drive/differential",
                    [left_speed |-> <<5>>, right_speed |-> <<-2>>, duration_s |-> d], h) :
                d \in Durations}
           \cup {Request("POST", "/drive/stop", None, h)} :
           h \in {GoodHeaders} \cup BadKeyHeaders \cup BadAddressHeaders}

NextA ==
    \/ Start
    \/ \E req \in AccessRequests : HandleRequest(req)
    \/ \E w \in Tasks : WorkerPoll(w)
    \/ \E w \in Tasks : WorkerGot(w)
    \/ \E w \in Tasks : WorkerRetryToken(w)
    \/ \E w \in Tasks : WorkerDurationElapsed(w)
    \/ Tick

SpecAccess == Init /\ [][NextA]_vars

\* The service while its execution limit is patched: PATCH /config with or
\* without execution_rate_limit, alone or beside a queue_maxsize that is
\* refused, drive requests, the worker, the clock.
ConfigRequests ==
    {Request("PATCH", "/config", j, GoodHeaders) :
        j \in {p \in ConfigPatches : /\ p.ingress_rate_limit = None
                                     /\ p.queue_maxsize \in {None, <<Num(0)>>}}}
    \cup {Request("POST", "/drive/differential",
                  [left_speed |-> <<5>>, right_speed |-> <<-2>>, duration_s |-> d],
                  GoodHeaders) : d \in Durations}

InitC ==
    \E cfg \in InitConfigs :
        /\ cfg.ingress_rate_limit = [rate_per_second |-> 2, burst |-> 2]
        /\ cfg.execution_rate_limit = [rate_per_second |-> 1, burst |-> 2]
        /\ cfg.queue_maxsize = MaxQueue
        /\ InitQueue(cfg) /\ InitApp(cfg) /\ InitBucket(1, 1) /\ InitMotor /\ InitLine

NextC ==
    \/ Start
    \/ \E req \in ConfigRequests : HandleRequest(req)
    \/ \E w \in Tasks : WorkerPoll(w)
    \/ \E w \in Tasks : WorkerGot(w)
    \/ \E w \in Tasks : WorkerRetryToken(w)
    \/ \E w \in Tasks : WorkerDurationElapsed(w)
    \/ Tick

SpecConfig == InitC /\ [][NextC]_vars

\* PATCH /config bodies as a client can send them: rate-limit objects that
\* are well formed, that carry a value the checks refuse, a NaN or a list, or
\* that lack a key; a queue_maxsize that is a size, a text or a list.
RawRateLimits ==
    {[rate_per_second |-> Num(2), burst |-> Num(1)],
     [rate_per_second |-> Num(0), burst |-> Num(1)],
     [rate_per_second |-> Num(1), burst |-> Num(0)],
     [rate_per_second |-> JsonNaN, burst |-> Num(1)],
     [rate_per_second |-> Num(1), burst |-> JsonList],
     [rate_per_second |-> Num(1)]}

RawPatches ==
    [ingress_rate_limit : {None} \cup {<<o>> : o \in RawRateLimits},
     execution_rate_limit : {None} \cup {<<o>> : o \in RawRateLimits},
     queue_maxsize : {None, <<Num(0)>>, <<Num(1)>>, <<JsonText>>, <<JsonList>>}]

\* The service under such bodies (those without an ingress_rate_limit whose
\* execution_rate_limit is absent, accepted, or refused for a missing key):
\* PATCH /config, drive requests without a duration, the worker, the clock.
PatchRequests ==
    {Request("PATCH", "/config", j, GoodHeaders) :
        j \in {p \in RawPatches :
                 /\ p.ingress_rate_limit = None
                 /\ p.execution_rate_limit
                       \in {None, <<[rate_per_second |-> Num(2), burst |-> Num(1)]>>,
                            <<[rate_per_second |-> JsonNaN, burst |-> Num(1)]>>,
                            <<[rate_per_second |-> Num(1)]>>}}}
    \cup {Request("POST", "/drive/differential",
                  [left_speed |-> <<5>>, right_speed |-> <<-2>>, duration_s |-> None],
                  GoodHeaders)}

InitP ==
    \E cfg \in InitConfigs :
        /\ cfg.ingress_rate_limit = [rate_per_second |-> 2, burst |-> 2]
        /\ cfg.execution_rate_limit = [rate_per_second |-> 1, burst |-> 2]
        /\ cfg.queue_maxsize = MaxQueue
        /\ InitQueue(cfg) /\ InitApp(cfg) /\ InitBucket(1, 1) /\ InitMotor /\ InitLine

NextP ==
    \/ Start
    \/ \E req \in PatchRequests : HandleRequest(req)
    \/ \E w \in Tasks : WorkerPoll(w)
    \/ \E w \in Tasks : WorkerGot(w)
    \/ \E w \in Tasks : WorkerRetryToken(w)
    \/ Tick

SpecPatch == InitP /\ [][NextP]_vars

\* A TokenBucket on its own with fixed parameters (the limiter unit tests'
\* setting): callers of allow(), callers of wait_for_token(), the clock.
serviceVars == <<queue, unfinished, maxsize, shutdown, worker_task, worker_pc,
                 command, wake_at, stoppers, enq_ret, next_id, generation,
                 execution_limiter>>

\* The callers asleep in wait_for_token, and the calls made so far.
Waiting == {k \in 1..MaxWaiters : token_wake[k] # None}
CallsMade == Len(token_log) + Cardinality(Waiting)

\* TokenBucket.allow on token_bucket: it returns at once, with its answer.
Allow ==
    /\ CallsMade < MaxCalls
    /\ \E a \in {allow(token_bucket, now)} :
          /\ token_bucket' = a.bucket
          /\ token_log' = Append(token_log, [at |-> now, ok |-> a.ok, by |-> "allow"])
    /\ UNCHANGED <<token_wake, now>>
    /\ UNCHANGED <<serviceVars, actuatorVars, appVars, motorVars, sensorVars>>

\* One iteration of wait_for_token's loop on token_bucket in caller k: it
\* returns with the token, or goes to sleep for wait_time.
WaitIteration(k) ==
    /\ \E r \in {wait_for_token(token_bucket, now)} :
          /\ token_bucket' = r.bucket
          /\ IF r.ok
             THEN /\ token_log' = Append(token_log, [at |-> now, ok |-> TRUE,
                                                      by |-> "wait_for_token"])
                  /\ token_wake' = [token_wake EXCEPT ![k] = None]
             ELSE /\ token_log' = token_log
                  /\ token_wake' = [token_wake EXCEPT ![k] = <<sleep_until(now, r.wait_time)>>]
    /\ UNCHANGED now
    /\ UNCHANGED <<serviceVars, actuatorVars, appVars, motorVars, sensorVars>>

\* Caller k calls wait_for_token.
WaitForToken(k) ==
    /\ token_wake[k] = None
    /\ CallsMade < MaxCalls
    /\ WaitIteration(k)

\* Its asyncio.sleep(wait_time) is over.
WaitForTokenWake(k) ==
    /\ token_wake[k] # None
    /\ sleep_over(now, token_wake[k][1])
    /\ WaitIteration(k)

\* TokenBucket.configure on token_bucket.
Configure(rate, capacity) ==
    /\ token_bucket' = configure_call(token_bucket, rate, capacity).bucket
    /\ UNCHANGED <<token_log, token_wake, now>>
    /\ UNCHANGED <<serviceVars, actuatorVars, appVars, motorVars, sensorVars>>

InitB ==
    \E cfg \in InitConfigs, rate \in Rates, capacity \in Bursts :
        /\ cfg.ingress_rate_limit = [rate_per_second |-> 1, burst |-> 1]
        /\ cfg.execution_rate_limit = [rate_per_second |-> 1, burst |-> 1]
        /\ cfg.queue_maxsize = 1
        /\ InitQueue(cfg) /\ InitApp(cfg) /\ InitBucket(rate, capacity) /\ InitMotor /\ InitLine

NextB ==
    \/ Allow
    \/ \E k \in 1..MaxWaiters : WaitForToken(k)
    \/ \E k \in 1..MaxWaiters : WaitForTokenWake(k)
    \/ Tick

SpecBucket == InitB /\ [][NextB]_vars

\* A TokenBucket on its own that is reconfigured while in use, with
\* parameters it accepts and parameters it refuses: callers of allow(), one
\* caller at a time of wait_for_token(), the clock.
Capacities == {1, 2, 3}
ConfigureRates == {-1, 0} \cup Rates
ConfigureCapacities == {0} \cup Capacities

InitR ==
    \E cfg \in InitConfigs, rate \in Rates, capacity \in Capacities :
        /\ cfg.ingress_rate_limit = [rate_per_second |-> 1, burst |-> 1]
        /\ cfg.execution_rate_limit = [rate_per_second |-> 1, burst |-> 1]
        /\ cfg.queue_maxsize = 1
        /\ InitQueue(cfg) /\ InitApp(cfg) /\ InitBucket(rate, capacity) /\ InitMotor /\ InitLine

NextR ==
    \/ Allow
    \/ WaitForToken(1)
    \/ WaitForTokenWake(1)
    \/ \E rate \in ConfigureRates, capacity \in ConfigureCapacities :
          Configure(rate, capacity)
    \/ Tick

SpecReconfigure == InitR /\ [][NextR]_vars

\* ================================================================ claims
\* ----------------------------------------- TokenBucket, without a horizon
\* time.monotonic() has no fixed origin.  Here the present is the origin (now
\* stays 0) and time passing, a second at a time, moves the recorded times
\* into the past: the last refill, and the deadlines of the sleeps, which are
\* due from 0 on (with fixed parameters every sleep is whole seconds long).  A
\* last refill further back than MaxAge fills the bucket to its capacity
\* whatever its age (Bursts and Rates give at most 2 tokens at 1 unit per
\* tick), so the age stops there.  The calls are not logged.
MaxAge == 2 * OneToken

TimePasses ==
    /\ token_bucket' = [token_bucket EXCEPT !.updated_at = Max(0 - MaxAge, @ - Second)]
    /\ token_wake' = [k \in 1..MaxWaiters |->
                         IF token_wake[k] = None THEN None
                         ELSE <<one_second_closer(token_wake[k][1])>>]
    /\ UNCHANGED <<token_log, now>>
    /\ UNCHANGED <<serviceVars, actuatorVars, appVars, motorVars, sensorVars>>

\* TokenBucket.allow, called by anyone at any time.
AllowCalled ==
    /\ token_bucket' = allow(token_bucket, now).bucket
    /\ UNCHANGED <<token_log, token_wake, now>>
    /\ UNCHANGED <<serviceVars, actuatorVars, appVars, motorVars, sensorVars>>

\* One iteration of wait_for_token's loop in caller k.
WaiterIterates(k) ==
    /\ \E r \in {wait_for_token(token_bucket, now)} :
          /\ token_bucket' = r.bucket
          /\ token_wake' = [token_wake EXCEPT
                               ![k] = IF r.ok THEN None ELSE <<sleep_until(now, r.wait_time)>>]
    /\ UNCHANGED <<token_log, now>>
    /\ UNCHANGED <<serviceVars, actuatorVars, appVars, motorVars, sensorVars>>

\* Caller k calls wait_for_token.
WaiterCalls(k) == token_wake[k] = None /\ WaiterIterates(k)

\* The sleep of caller k is over and the event loop resumes it.
WaiterWakes(k) ==
    /\ token_wake[k] # None
    /\ sleep_over(now, token_wake[k][1])
    /\ WaiterIterates(k)

NextW ==
    \/ TimePasses
    \/ AllowCalled
    \/ \E k \in 1..MaxWaiters : WaiterCalls(k)
    \/ \E k \in 1..MaxWaiters : WaiterWakes(k)

\* Time keeps passing, and the event loop runs every callback that is due:
\* a sleeper whose deadline has passed is resumed.  Nothing is asked of the
\* callers of allow().
SpecWaiters ==
    /\ InitB /\ [][NextW]_vars
    /\ WF_vars(TimePasses)
    /\ \A k \in 1..MaxWaiters : WF_vars(WaiterWakes(k))

\* ---------------------------------------- CommandQueue, without a horizon
\* The worker's clock with the present as origin, as for TimePasses: the
\* deadlines of the worker's sleeps and the last refill of the limiters move
\* a second into the past, now stays 0.
QueueTimePasses ==
    /\ wake_at' = [w \in 1..MaxStarts |-> one_second_closer(wake_at[w])]
    /\ execution_limiter' = [execution_limiter EXCEPT
                                !.updated_at = Max(0 - MaxAge, @ - Second)]
    /\ ingress_limiter' = [ingress_limiter EXCEPT
                              !.updated_at = Max(0 - MaxAge, @ - Second)]
    /\ UNCHANGED <<queue, unfinished, maxsize, shutdown, worker_task, worker_pc,
                   command, stoppers, enq_ret, next_id, generation, now,
                   config, servo>>
    /\ UNCHANGED actuatorVars
    /\ UNCHANGED <<bucketVars, motorVars, sensorVars>>

\* The actuator's call returns: no worker task ends with an exception.
ActuatorReturns == \A w \in 1..MaxStarts : worker_pc'[w] # "failed"

\* A CommandQueue that is started and never stopped, with an actuator that
\* does not raise: enqueue_drive, clear, the worker, the clock.
NextG ==
    \/ Start
    \/ \E d \in {0} \cup DurationSeconds : EnqueueDrive(d)
    \/ Clear
    \/ \E w \in Tasks : WorkerPoll(w)
    \/ \E w \in Tasks : (WorkerGot(w) /\ ActuatorReturns)
    \/ \E w \in Tasks : (WorkerRetryToken(w) /\ ActuatorReturns)
    \/ \E w \in Tasks : (WorkerDurationElapsed(w) /\ ActuatorReturns)
    \/ QueueTimePasses

\* Time keeps passing and the event loop resumes the worker whenever it can
\* run: its get() when an entry is there, its sleeps when they are over.
SpecRunning ==
    /\ InitQ /\ [][NextG]_vars
    /\ WF_vars(QueueTimePasses)
    /\ \A w \in 1..MaxStarts :
          /\ WF_vars(WorkerPoll(w))
          /\ WF_vars(WorkerGot(w) /\ ActuatorReturns)
          /\ WF_vars(WorkerRetryToken(w) /\ ActuatorReturns)
          /\ WF_vars(WorkerDurationElapsed(w) /\ ActuatorReturns)

\* ------------------------------------------------- CamJamMotorController
\* self._motors, in the order of the configuration.
Motors == <<"left", "right">>

\* Requested speeds, in tenths.
Speeds == {-5, 15}

\* An entry of motor_log: a call on the controller, or a command to its backend.
Called(name) == [kind |-> "call", name |-> name, motor |-> "", value |-> 0]
Backend(name, motor, value) ==
    [kind |-> "backend", name |-> name, motor |-> motor, value |-> value]

\* _apply_trim_and_curve with the defaults (trim 0.0, curve (0,0)-(1,1)): the
\* request saturated to [-1, 1].
apply_trim_and_curve(request) == Max(-10, Min(10, request))

\* drive() that does not look at the latch.
drive_ignores_latch(e, left_speed, right_speed) ==
    <<Backend("command_motor", "left", apply_trim_and_curve(left_speed)),
      Backend("command_motor", "right", apply_trim_and_curve(right_speed))>>

\* CamJamMotorController.drive with _estop = e: its backend commands.
drive(e, left_speed, right_speed) ==
    IF e THEN <<>>
    ELSE <<Backend("command_motor", "left", apply_trim_and_curve(left_speed)),
           Backend("command_motor", "right", apply_trim_and_curve(right_speed))>>

\* CamJamMotorController.brake
brake(e) ==
    IF e THEN <<>>
    ELSE [i \in 1..Len(Motors) |-> Backend("brake_motor", Motors[i], 0)]

\* stop() that does not look at the latch.
stop_ignores_latch(e) ==
    [i \in 1..Len(Motors) |-> Backend("command_motor", Motors[i], 0)]

\* CamJamMotorController.stop
stop(e) ==
    IF e THEN <<>>
    ELSE [i \in 1..Len(Motors) |-> Backend("command_motor", Motors[i], 0)]

\* CamJamMotorController.emergency_stop: its backend commands and the latch.
emergency_stop(e) ==
    [commands |-> [i \in 1..Len(Motors) |-> Backend("estop_motor", Motors[i], 0)],
     estop |-> TRUE]

\* CamJamMotorController.reset_estop: the latch.
reset_estop(e) == FALSE

\* The calls made on the controller so far.
MotorCalls == Cardinality({i \in 1..Len(motor_log) : motor_log[i].kind = "call"})

Drive(left_speed, right_speed) ==
    /\ MotorCalls < MaxCalls
    /\ motor_log' = motor_log \o <<Called("drive")>>
                              \o drive(estop, left_speed, right_speed)
    /\ UNCHANGED <<estop, serviceVars, actuatorVars, appVars, bucketVars, sensorVars, now>>

Brake ==
    /\ MotorCalls < MaxCalls
    /\ motor_log' = motor_log \o <<Called("brake")>> \o brake(estop)
    /\ UNCHANGED <<estop, serviceVars, actuatorVars, appVars, bucketVars, sensorVars, now>>

MotorStop ==
    /\ MotorCalls < MaxCalls
    /\ motor_log' = motor_log \o <<Called("stop")>> \o stop(estop)
    /\ UNCHANGED <<estop, serviceVars, actuatorVars, appVars, bucketVars, sensorVars, now>>

EmergencyStop ==
    /\ MotorCalls < MaxCalls
    /\ motor_log' = motor_log \o <<Called("emergency_stop")>>
                              \o emergency_stop(estop).commands
    /\ estop' = emergency_stop(estop).estop
    /\ UNCHANGED <<serviceVars, actuatorVars, appVars, bucketVars, sensorVars, now>>

ResetEstop ==
    /\ MotorCalls < MaxCalls
    /\ motor_log' = Append(motor_log, Called("reset_estop"))
    /\ estop' = reset_estop(estop)
    /\ UNCHANGED <<serviceVars, actuatorVars, appVars, bucketVars, sensorVars, now>>

\* A CamJamMotorController on its own (the driver tests' setting), under every
\* sequence of calls.
InitD ==
    \E cfg \in InitConfigs :
        /\ cfg.ingress_rate_limit = [rate_per_second |-> 1, burst |-> 1]
        /\ cfg.execution_rate_limit = [rate_per_second |-> 1, burst |-> 1]
        /\ cfg.queue_maxsize = 1
        /\ InitQueue(cfg) /\ InitApp(cfg) /\ InitBucket(1, 1) /\ InitMotor /\ InitLine

NextMotor ==
    \/ \E l, r \in Speeds : Drive(l, r)
    \/ Brake
    \/ MotorStop
    \/ EmergencyStop
    \/ ResetEstop

SpecMotor == InitD /\ [][NextMotor]_vars

\* ------------------------ ControlServiceApp with a CamJamMotorController
\* The service with the latching controller as its actuator: every call the
\* handlers and the worker make on the actuator goes to the controller, which
\* logs it in motor_log, followed by the commands it gives its backend.

\* The controller's answer to the call `name` with _estop = e.  A command
\* does not carry its speeds in this model: the worker's drive() asks for the
\* speeds of the accepted payloads, 0.5 and -0.2.
actuator_call(e, name) ==
    CASE name = "motor_controller.drive" ->
            [estop |-> e, log |-> <<Called("drive")>> \o drive(e, 5, -2)]
      [] name = "motor_controller.stop" ->
            [estop |-> e, log |-> <<Called("stop")>> \o stop(e)]
      [] name = "motor_controller.brake" ->
            [estop |-> e, log |-> <<Called("brake")>> \o brake(e)]
      [] name = "motor_controller.emergency_stop" ->
            [estop |-> emergency_stop(e).estop,
             log |-> <<Called("emergency_stop")>> \o emergency_stop(e).commands]
      [] name = "motor_controller.reset_estop" ->
            [estop |-> reset_estop(e), log |-> <<Called("reset_estop")>>]
      [] name = "motor_controller.close" ->
            [estop |-> e, log |-> <<Called("close"), Backend("shutdown", "", 0)>>]
      [] OTHER -> [estop |-> e, log |-> <<>>]

\* The calls of a handler, in order, on a controller with _estop = e.
RECURSIVE actuator_calls(_, _)
actuator_calls(e, calls) ==
    IF calls = <<>> THEN [estop |-> e, log |-> <<>>]
    ELSE LET first == actuator_call(e, Head(calls))
             rest == actuator_calls(first.estop, Tail(calls))
         IN  [estop |-> rest.estop, log |-> first.log \o rest.log]

\* The controller receives the calls `calls`.
Actuator(calls) ==
    /\ MotorCalls < MaxCalls
    /\ \E m \in {actuator_calls(estop, calls)} :
          /\ motor_log' = motor_log \o m.log
          /\ estop' = m.estop

\* The controller receives the call `name` and its backend raises in one of
\* the commands the call gives it: the commands after that one are not given.
\* A latched controller gives its backend no command and cannot fail.
ActuatorFails(name) ==
    /\ MotorCalls < MaxCalls
    /\ \E m \in {actuator_call(estop, name)} :
          \E k \in 1..(Len(m.log) - 1) :
              motor_log' = motor_log \o SubSeq(m.log, 1, 1 + k)
    /\ UNCHANGED estop

\* HandleRequest, the handler's actuator calls made on the controller.
RobotRequest(req) ==
    \E out \in {handle_request(AppState, req, now)} :
        /\ out.state.next_id <= MaxCmds + 1
        /\ queue' = out.state.queue
        /\ unfinished' = out.state.unfinished
        /\ maxsize' = out.state.maxsize
        /\ next_id' = out.state.next_id
        /\ estopped' = out.state.estopped
        /\ servo' = out.state.servo
        /\ ingress_limiter' = out.state.ingress_limiter
        /\ execution_limiter' = out.state.execution_limiter
        /\ config' = out.state.config
        /\ Actuator(out.calls)
        /\ UNCHANGED <<shutdown, worker_task, worker_pc, command, wake_at, stoppers,
                       enq_ret, drives, generation, now>>
        /\ UNCHANGED <<bucketVars, sensorVars>>

\* Lines 104-108 in task w, drive() made on the controller.  A latched
\* controller returns before it touches its backend, so only a controller
\* that is not latched can fail.
RobotExecute(w, raises) ==
    /\ raises => ~estop
    /\ WorkerExecute(w, command[w], queue, unfinished, raises)
    /\ IF drives' # drives
       THEN IF raises THEN ActuatorFails("motor_controller.drive")
                      ELSE Actuator(<<"motor_controller.drive">>)
       ELSE UNCHANGED motorVars
    /\ UNCHANGED <<maxsize, shutdown, worker_task, stoppers, enq_ret,
                   next_id, estopped, generation, now>>
    /\ UNCHANGED appVars
    /\ UNCHANGED <<bucketVars, sensorVars>>

\* WorkerGot
RobotWorkerGot(w, raises) ==
    /\ worker_pc[w] = "got"
    /\ \A v \in Tasks : worker_pc[v] = "got" => command[v].id >= command[w].id
    /\ RobotExecute(w, raises)

\* WorkerRetryToken
RobotWorkerRetryToken(w, raises) ==
    /\ worker_pc[w] = "wait"
    /\ sleep_over(now, wake_at[w])
    /\ RobotExecute(w, raises)

\* WorkerDurationElapsed, the trailing stop() made on the controller.
RobotWorkerDurationElapsed(w, raises) ==
    /\ worker_pc[w] = "sleep"
    /\ sleep_over(now, wake_at[w])
    /\ raises => ~estop
    /\ IF raises THEN /\ WorkerRaise(w, queue, unfinished)
                      /\ ActuatorFails("motor_controller.stop")
                 ELSE /\ WorkerDone(w, queue, unfinished)
                      /\ Actuator(<<"motor_controller.stop">>)
    /\ UNCHANGED <<maxsize, shutdown, worker_task, stoppers, enq_ret,
                   next_id, drives, estopped, generation, now, execution_limiter>>
    /\ UNCHANGED appVars
    /\ UNCHANGED <<bucketVars, sensorVars>>

\* The requests of an admitted client that reach the queue or the actuator.
RobotRequests ==
    {Request("POST", "/drive/differential",
             [left_speed |-> <<5>>, right_speed |-> <<-2>>, duration_s |-> d],
             GoodHeaders) : d \in {None, <<1>>}}
    \cup {Request("POST", p, None, GoodHeaders) :
            p \in {"/drive/stop", "/drive/brake", "/drive/emergency-stop",
                   "/drive/reset"}}

\* The running service and its controller, with a backend that does not fail.
NextRobot ==
    \/ Start
    \/ \E req \in RobotRequests : RobotRequest(req)
    \/ \E w \in Tasks : WorkerPoll(w)
    \/ \E w \in Tasks : RobotWorkerGot(w, FALSE)
    \/ \E w \in Tasks : RobotWorkerRetryToken(w, FALSE)
    \/ \E w \in Tasks : RobotWorkerDurationElapsed(w, FALSE)
    \/ Tick

SpecRobot == InitD /\ [][NextRobot]_vars

\* ControlServiceApp.shutdown up to its first suspension: command_queue.stop()
\* (StopCall) and, when that returns without waiting, motor_controller.stop()
\* and close().  When stop() re-raises the worker's exception shutdown() ends
\* with it and the two calls are not made.
ShutdownCall ==
    /\ shutdown' = TRUE
    /\ CASE worker_task = NoTask ->
                /\ UNCHANGED <<worker_task, stoppers>>
                /\ Actuator(<<"motor_controller.stop", "motor_controller.close">>)
         [] worker_task # NoTask /\ worker_pc[worker_task] = "exited" ->
                /\ worker_task' = NoTask
                /\ UNCHANGED stoppers
                /\ Actuator(<<"motor_controller.stop", "motor_controller.close">>)
         [] worker_task # NoTask /\ worker_pc[worker_task] = "failed" ->
                UNCHANGED <<worker_task, stoppers, motorVars>>
         [] OTHER ->
                /\ Len(stoppers) < Cardinality(StopCallers)
                /\ stoppers' = Append(stoppers, [task |-> worker_task, mark |-> next_id])
                /\ UNCHANGED <<worker_task, motorVars>>
    /\ UNCHANGED <<queue, unfinished, maxsize, worker_pc, command, wake_at, enq_ret,
                   next_id, generation, now, execution_limiter>>
    /\ UNCHANGED actuatorVars
    /\ UNCHANGED appVars
    /\ UNCHANGED <<bucketVars, sensorVars>>

\* ControlServiceApp.shutdown resumed by the end of the worker task its
\* command_queue.stop() awaits (StopResume), to its end.
ShutdownResume(i) ==
    /\ i \in 1..Len(stoppers)
    /\ worker_pc[stoppers[i].task] \in {"exited", "failed"}
    /\ \A j \in 1..(i - 1) : stoppers[j].task # stoppers[i].task
    /\ stoppers' = Remove(stoppers, i)
    /\ IF worker_pc[stoppers[i].task] = "exited"
       THEN /\ worker_task' = NoTask
            /\ Actuator(<<"motor_controller.stop", "motor_controller.close">>)
       ELSE UNCHANGED <<worker_task, motorVars>>
    /\ UNCHANGED <<queue, unfinished, maxsize, shutdown, worker_pc, command, wake_at,
                   enq_ret, next_id, generation, now, execution_limiter>>
    /\ UNCHANGED actuatorVars
    /\ UNCHANGED appVars
    /\ UNCHANGED <<bucketVars, sensorVars>>

\* The service from start() to shutdown(): drive requests, the worker on a
\* controller whose backend may fail, and callers of start() and shutdown().
NextS ==
    \/ Start
    \/ ShutdownCall
    \/ \E i \in 1..Len(stoppers) : ShutdownResume(i)
    \/ \E req \in RobotRequests :
          (req.path = "/drive/differential" /\ RobotRequest(req))
    \/ \E w \in Tasks : WorkerPoll(w)
    \/ \E w \in Tasks, raises \in BOOLEAN : RobotWorkerGot(w, raises)
    \/ \E w \in Tasks, raises \in BOOLEAN : RobotWorkerRetryToken(w, raises)
    \/ \E w \in Tasks, raises \in BOOLEAN : RobotWorkerDurationElapsed(w, raises)
    \/ Tick

SpecShutdown == InitD /\ [][NextS]_vars

\* ----------------------------------------------- LineFollower on its own
\* The raw readings of the two reflectance sensors, below, inside and above
\* the calibrated range, and the calibrations: two ranges and an empty one.
RawReadings == {-1, 1, 2, 3, 5}
Calibrations == {<<0, 4>>, <<1, 3>>, <<2, 2>>}

\* (active_threshold, inactive_threshold) as __init__ accepts them:
\* inactive_threshold <= active_threshold.
Thresholds == {<<38, 26>>, <<32, 32>>}

\* read() with the raw readings the readers return.
Read(raw_left, raw_right) ==
    /\ line_reads < MaxReads
    /\ line_follower' = read(line_follower, raw_left, raw_right).follower
    /\ line_reads' = line_reads + 1
    /\ UNCHANGED <<serviceVars, actuatorVars, appVars, bucketVars, motorVars, now>>

\* set_calibration(left=..., right=...)
SetCalibration(left, right) ==
    /\ line_follower' = set_calibration(line_follower, left, right)
    /\ UNCHANGED line_reads
    /\ UNCHANGED <<serviceVars, actuatorVars, appVars, bucketVars, motorVars, now>>

InitF ==
    \E cfg \in InitConfigs :
        /\ cfg.ingress_rate_limit = [rate_per_second |-> 1, burst |-> 1]
        /\ cfg.execution_rate_limit = [rate_per_second |-> 1, burst |-> 1]
        /\ cfg.queue_maxsize = 1
        /\ InitQueue(cfg) /\ InitApp(cfg) /\ InitBucket(1, 1) /\ InitMotor
        /\ \E c \in Calibrations, ema_alpha \in {1, 2}, t \in Thresholds :
              line_follower = LineFollower(c, <<0, 4>>, ema_alpha, t[1], t[2])
        /\ line_reads = 0

NextF ==
    \/ \E raw_left, raw_right \in RawReadings : Read(raw_left, raw_right)
    \/ \E left, right \in {None} \cup {<<c>> : c \in Calibrations} :
          SetCalibration(left, right)

SpecLine == InitF /\ [][NextF]_vars

\* ---------------------------------------------------------------- C1
\* C1: the worker's actuator.drive() calls follow submission order.  Ids
\* number the accepted commands in submission order, so the ids passed to
\* drive(), in call order, strictly increase: none is driven twice and none
\* overtakes an earlier one.
C1_FifoOrder ==
    \A i, j \in 1..Len(drives) : i < j => drives[i] < drives[j]

\* ---------------------------------------------------------------- C2
\* C2: the emergency-stop handler calls queue.clear() and then
\* actuator.emergency_stop(), answers 200, and runs as one step of the event
\* loop: the step leaves the queue empty with its entries marked done and the
\* actuator latched, and in it the worker neither moves nor calls drive().
C2_ClearThenLatch ==
    [][\A req \in {Request("POST", "/drive/emergency-stop", None, GoodHeaders)} :
         HandleRequest(req) =>
            LET out == handle_request(AppState, req, now)
            IN  /\ out.calls = <<"command_queue.clear", "motor_controller.emergency_stop">>
                /\ out.response = Response(200, [status |-> "estop"])
                /\ queue' = <<>>
                /\ unfinished' = unfinished - Len(queue)
                /\ estopped'
                /\ drives' = drives
                /\ worker_pc' = worker_pc
                /\ command' = command]_vars

\* The actuator is latched, the queue is empty, the worker holds the entry it
\* had taken before, and a later command was discarded from the queue.
C2_Witness ==
    /\ estopped
    /\ queue = <<>>
    /\ worker_pc[1] \in {"got", "wait", "sleep"}
    /\ next_id > command[1].id + 1
    /\ \A i \in 1..Len(drives) : drives[i] <= command[1].id

\* ---------------------------------------------------------------- C3
\* C3: an exception of actuator.drive() or actuator.stop() does not end the
\* worker: no worker task finishes with an exception.
C3_WorkerSurvivesActuatorFailure == \A w \in Tasks : worker_pc[w] # "failed"

\* ---------------------------------------------------------------- C4
\* C4: an entry that was queued when stop() was called is not executed: while
\* that stop() waits for the worker, the worker at its poll boundary does not
\* take such an entry from the queue, and nothing is driven.
C4_NoDequeueAfterStop ==
    [][\A i \in 1..Len(stoppers) :
          (/\ shutdown /\ worker_pc[stoppers[i].task] = "poll"
           /\ queue # <<>> /\ Head(queue).id < stoppers[i].mark)
          => (worker_pc'[stoppers[i].task] # "got" /\ drives' = drives)]_vars

\* ---------------------------------------------------------------- C5
\* C5: when stop() returns, the worker task is gone and every entry enqueued
\* before the call is marked done.  stop() returns either at once (no task, or
\* a task that had already exited) or when the awaited worker exits; in the
\* first case every entry there is predates the call.
C5_StopLeavesNothingUndone ==
    [][/\ (/\ StopCall /\ stoppers' = stoppers
           /\ ~(worker_task # NoTask /\ worker_pc[worker_task] = "failed"))
          => (worker_task' = NoTask /\ unfinished' = 0)
       /\ \A i \in 1..Len(stoppers) :
            (StopResume(i) /\ worker_pc[stoppers[i].task] = "exited")
            => (worker_task' = NoTask
                /\ \A id \in Ids(queue') : id >= stoppers[i].mark)]_vars

\* ---------------------------------------------------------------- C6
\* C6: a worker started after an earlier start() and stop() keeps running: it
\* has not left its loop unless a stop() was called after it started.
C6_RestartedWorkerRuns ==
    (generation >= 2 /\ worker_task # NoTask /\ stoppers = <<>>)
        => worker_pc[worker_task] # "exited"

\* ---------------------------------------------------------------- C7
\* C7: while no entry has left the queue (every accepted command is still in
\* it), the queue holds the first accepted commands in order, never more than
\* maxsize of them; an accepted call returned the depth it produced, and a
\* call was refused only with the queue at maxsize.
C7_BoundedDepth ==
    (Len(queue) = next_id - 1) =>
        /\ Len(queue) <= maxsize
        /\ \A i \in 1..Len(queue) : queue[i].id = i
        /\ enq_ret > 0 => enq_ret = Len(queue)
        /\ enq_ret = QueueFull => Len(queue) = maxsize

\* maxsize calls were accepted, the one after them was refused, nothing was
\* dequeued.
C7_Witness ==
    /\ enq_ret = QueueFull
    /\ maxsize = 2
    /\ Len(queue) = 2
    /\ next_id = 3
    /\ drives = <<>>

\* ---------------------------------------------------------------- C8
\* C8: a valid drive request from an admitted client, with the ingress bucket
\* refilled to the time of the request: below one token the answer is 429,
\* the queue, its counter and the next id are as before and enqueue_drive is
\* not called; otherwise one token is taken and the answer is 202 with the
\* new depth and the command appended, or 503 with the queue as before when
\* the queue is at maxsize.
C8_IngressAdmission ==
    \A req \in RequestsWith(GoodHeaders) :
        (/\ req.path = "/drive/differential"
         /\ validate_speed(req.json.left_speed)
         /\ validate_speed(req.json.right_speed)
         /\ validate_duration(req.json.duration_s)) =>
            LET out == handle_request(AppState, req, now)
                bucket == refill(ingress_limiter, now)
                ds == IF req.json.duration_s = None THEN 0 ELSE req.json.duration_s[1]
            IN  IF bucket.tokens < OneToken
                THEN /\ out.response.status_code = 429
                     /\ out.state.queue = queue
                     /\ out.state.unfinished = unfinished
                     /\ out.state.next_id = next_id
                     /\ \A i \in 1..Len(out.calls) :
                            out.calls[i] # "command_queue.enqueue_drive"
                ELSE /\ out.state.ingress_limiter.tokens = bucket.tokens - OneToken
                     /\ IF Len(queue) >= maxsize
                        THEN /\ out.response.status_code = 503
                             /\ out.state.queue = queue
                             /\ out.state.unfinished = unfinished
                        ELSE /\ out.response =
                                   Response(202, [status |-> "queued",
                                                  queue_depth |-> Len(queue) + 1])
                             /\ out.state.queue =
                                   Append(queue, [id |-> next_id, duration_s |-> ds])
                             /\ out.state.unfinished = unfinished + 1

\* The ingress bucket was drawn below one token by admitted commands, one of
\* which is still queued: the next drive request is answered 429.
C8_Witness ==
    /\ refill(ingress_limiter, now).tokens < OneToken
    /\ queue # <<>>
    /\ Len(queue) < maxsize

\* ---------------------------------------------------------------- C9
\* C9: a drive request answered 503 made its ingress check first and took a
\* token; with the bucket below one token and the queue at maxsize the
\* answer is 429.
C9_IngressBeforeCapacity ==
    \A req \in RequestsWith(GoodHeaders) :
        req.path = "/drive/differential" =>
            LET out == handle_request(AppState, req, now)
                bucket == refill(ingress_limiter, now)
            IN  /\ out.response.status_code = 503 =>
                    /\ out.calls = <<"ingress_limiter.allow",
                                     "command_queue.enqueue_drive">>
                    /\ bucket.tokens >= OneToken
                    /\ out.state.ingress_limiter.tokens = bucket.tokens - OneToken
                /\ (/\ bucket.tokens < OneToken
                    /\ Len(queue) >= maxsize
                    /\ out.response.status_code # 422)
                   => out.response.status_code = 429

\* The queue is at maxsize and the ingress bucket is below one token.
C9_Witness ==
    /\ Len(queue) = maxsize
    /\ refill(ingress_limiter, now).tokens < OneToken
    /\ ingress_limiter.capacity = 2

\* ---------------------------------------------------------------- C10
\* C10: a request without an X-Api-Key or with a key that is not configured
\* is answered 401 whatever its method, path, body and forwarded address; the
\* handler calls no collaborator and leaves the queue, both limiters, the
\* actuator latch, the servo and the configuration as they were.
C10_BadKeyRejected ==
    \A h \in BadKeyHeaders : \A req \in RequestsWith(h) :
        LET out == handle_request(AppState, req, now)
        IN  /\ out.response.status_code = 401
            /\ out.error = ""
            /\ out.calls = <<>>
            /\ out.state = AppState

\* Commands are queued, the actuator is not latched and the ingress bucket
\* has a token: a drive and an emergency stop with the configured key would
\* both take effect here.
C10_Witness ==
    /\ queue # <<>>
    /\ ~estopped
    /\ refill(ingress_limiter, now).tokens >= OneToken
    /\ Len(queue) < maxsize
    /\ \E h \in BadKeyHeaders : \E req \in RequestsWith(h) :
          /\ handle_request(AppState, req, now).response.status_code = 401
          /\ handle_request(AppState, [req EXCEPT !.headers = GoodHeaders], now).state
                # AppState

\* ---------------------------------------------------------------- C11
\* C11: for a request with a configured key the client is the first entry of
\* X-Forwarded-For, or 127.0.0.1 without the header.  A client that is no
\* address is answered 400 and one in none of the allowed networks 403, both
\* without a collaborator call or a change of state; a client in an allowed
\* network passes _authenticate (it returns None).
C11_ClientAddress ==
    \A h \in {GoodHeaders} \cup BadAddressHeaders :
        \A ip_obj \in {ip_address(IF h.forwarded = None THEN "127.0.0.1"
                                  ELSE h.forwarded[1])} :
            IF /\ ip_obj # <<>>
               /\ \E i \in 1..Len(config.allowed_networks) :
                     in_network(ip_obj, config.allowed_networks[i])
            THEN authenticate(h, config) = 0
            ELSE \A req \in RequestsWith(h) :
                 \A out \in {handle_request(AppState, req, now)} :
                     /\ out.response.status_code = IF ip_obj = <<>> THEN 400 ELSE 403
                     /\ out.calls = <<>> /\ out.state = AppState /\ out.error = ""

\* Commands are queued behind the one the worker holds: a stop from the
\* configured key would discard them, and the same request from 8.8.8.8 and
\* from a malformed address is answered 403 and 400; the addresses listed
\* loopback first are let through.
C11_Witness ==
    /\ queue # <<>>
    /\ InHand # {}
    /\ \E h1, h2, h3 \in BadAddressHeaders :
          /\ handle_request(AppState, Request("POST", "/drive/stop", None, h1),
                            now).response.status_code = 403
          /\ handle_request(AppState, Request("POST", "/drive/stop", None, h2),
                            now).response.status_code = 400
          /\ handle_request(AppState, Request("POST", "/drive/stop", None, h3),
                            now).state.queue = <<>>
    /\ handle_request(AppState, Request("POST", "/drive/stop", None, GoodHeaders),
                      now).state # AppState

\* ---------------------------------------------------------------- C12
\* C12: a PATCH /config whose queue_maxsize is not positive is answered 422
\* and leaves the configuration, both limiters and the queue's maxsize as they
\* were, whatever rate-limit fields the same body carries.
C12_InvalidPatchChangesNothing ==
    \A j \in ConfigPatches :
        (j.queue_maxsize # None /\ j.queue_maxsize[1].num <= 0) =>
            LET out == handle_request(AppState,
                                      Request("PATCH", "/config", j, GoodHeaders), now)
            IN  /\ out.response.status_code = 422
                /\ out.state = AppState

\* ---------------------------------------------------------------- C13
\* The tokens taken from token_bucket by the calls i..j of the log.
Consumed(i, j) == Cardinality({k \in i..j : token_log[k].ok})

\* C13 as stated: from a full bucket of capacity C and rate R, the calls of
\* allow() and wait_for_token() that fall in a window shorter than C/R take
\* at most C tokens.
C13_BurstPerWindow ==
    \A i, j \in 1..Len(token_log) :
        (/\ i <= j
         /\ (token_log[j].at - token_log[i].at) * token_bucket.rate_per_second
                < token_bucket.capacity * OneToken)
            => Consumed(i, j) <= token_bucket.capacity

\* C13, amended: the calls that fall in a window of length T take at most
\* C + R*T tokens, so at most C in a window shorter than 1/R.
C13_BurstPlusRefill ==
    \A i, j \in 1..Len(token_log) :
        i <= j =>
            Consumed(i, j) * OneToken
                <= token_bucket.capacity * OneToken
                   + (token_log[j].at - token_log[i].at) * token_bucket.rate_per_second

\* A window of positive length, shorter than C/R, in which allow() and
\* wait_for_token() took more than C tokens: exactly C + R*T.
C13_Witness ==
    \E i, j \in 1..Len(token_log) :
        /\ i < j
        /\ token_log[i].at < token_log[j].at
        /\ (token_log[j].at - token_log[i].at) * token_bucket.rate_per_second
              < token_bucket.capacity * OneToken
        /\ Consumed(i, j) > token_bucket.capacity
        /\ Consumed(i, j) * OneToken
              = token_bucket.capacity * OneToken
                + (token_log[j].at - token_log[i].at) * token_bucket.rate_per_second
        /\ \E k, l \in i..j : /\ token_log[k].by = "allow"
                              /\ token_log[l].by = "wait_for_token"

\* ---------------------------------------------------------------- C14
\* C14: allow() refills to min(capacity, tokens + elapsed * rate), answers true
\* and takes one token iff at least one is there after the refill, and
\* otherwise answers false and takes nothing.  So from a full bucket that
\* only allow() is called on, the calls made before time passes succeed up
\* to the C-th and fail from then on, and the first call made 1/rate or more
\* later succeeds.
C14_AllowRefillsAndTakesOne ==
    /\ LET a == allow(token_bucket, now)
           elapsed == Max(0, now - token_bucket.updated_at)
           tokens == Min(token_bucket.capacity * OneToken,
                         token_bucket.tokens + elapsed * token_bucket.rate_per_second)
       IN  /\ a.ok <=> tokens >= OneToken
           /\ a.bucket.tokens = IF a.ok THEN tokens - OneToken ELSE tokens
    /\ \A i \in 1..Len(token_log) :
          (\A k \in 1..i : token_log[k].by = "allow") =>
              /\ token_log[i].at = 0
                    => (token_log[i].ok <=> i <= token_bucket.capacity)
              /\ (/\ \A k \in 1..(i - 1) : token_log[k].at = 0
                  /\ token_log[i].at * token_bucket.rate_per_second >= OneToken)
                    => token_log[i].ok

\* Scenario C of the limiter tests: burst 2; two calls succeed and a third
\* fails before time passes, a fourth succeeds 1/rate later.
C14_Witness ==
    /\ token_bucket.capacity = 2
    /\ Len(token_log) = 4
    /\ \A k \in 1..4 : token_log[k].by = "allow"
    /\ \A k \in 1..3 : token_log[k].at = 0
    /\ token_log[1].ok /\ token_log[2].ok /\ ~token_log[3].ok
    /\ token_log[4].at * token_bucket.rate_per_second = OneToken
    /\ token_log[4].ok

\* ---------------------------------------------------------------- C15
\* C15: the worker executes one entry at a time: actuator.drive() is never
\* called for an entry while an earlier timed entry is still in its duration
\* sleep, its trailing stop() not yet called.
C15_NoOverlappingExecution ==
    [][drives' # drives => \A w \in Tasks : worker_pc[w] # "sleep"]_vars

\* ---------------------------------------------------------------- C19
\* C19: after any sequence of start() and stop() calls, a start() issued
\* while a stop() is waiting included, at most one worker task is consuming
\* the queue: no two tasks hold an entry taken from it.
C19_SingleWorker == Cardinality(InHand) <= 1

\* ---------------------------------------------------------------- C16
\* C16: clear() discards exactly the entries sitting in the queue when it is
\* called, and a discarded entry is never passed to actuator.drive(); an
\* entry a worker already holds is not touched by clear() and leaves the
\* worker's hand only after its drive() call and, if timed, after its
\* duration sleep.
C16_ClearSparesTheEntryInHand ==
    [][/\ Dropped \subseteq Dropped'
       /\ Clear => /\ queue' = <<>>
                   /\ Dropped' = Dropped \cup Ids(queue)
                   /\ worker_pc' = worker_pc /\ command' = command
                   /\ wake_at' = wake_at /\ drives' = drives
       /\ \A w \in InHand :
             \/ w \in InHand' /\ command'[w] = command[w]
             \/ /\ \E i \in 1..Len(drives') : drives'[i] = command[w].id
                /\ worker_pc[w] = "sleep" => sleep_over(now, wake_at[w])]_vars

\* No stop() and no failure so far, so what is gone without a drive() call
\* was discarded by clear(): an entry submitted after the one a worker holds
\* in its duration sleep was discarded, and that one has had its drive().
C16_Witness ==
    /\ ~shutdown
    /\ \A w \in Tasks : worker_pc[w] # "failed"
    /\ queue = <<>>
    /\ \E w \in Tasks :
          /\ worker_pc[w] = "sleep"
          /\ \E i \in 1..Len(drives) : drives[i] = command[w].id
          /\ \E id \in Dropped : id > command[w].id

\* ---------------------------------------------------------------- C17
\* C17: with entries pending, none executed and none in a worker's hand (a
\* worker running or not), clear() leaves the queue empty and every entry
\* marked done, so that wait_until_idle() returns, and none of them has been
\* passed to actuator.drive().
C17_ClearThenIdle ==
    [][(Clear /\ queue # <<>> /\ drives = <<>> /\ InHand = {})
          => /\ queue' = <<>>
             /\ wait_until_idle(unfinished')
             /\ drives' = <<>>]_vars

\* No worker was ever started, two or more commands were accepted, and the
\* queue is empty with nothing left to wait for: clear() took them.
C17_Witness ==
    /\ generation = 0
    /\ next_id > 2
    /\ queue = <<>>
    /\ wait_until_idle(unfinished)
    /\ drives = <<>>

\* ---------------------------------------------------------------- C18
\* C18: each accepted entry is marked done exactly once, whoever takes it
\* from the queue (a worker, clear() or the drain): the entries not yet marked
\* done are those in the queue and those in a worker's hand, and their
\* number is never negative (task_done is never called once too often).
C18_DoneExactlyOnce ==
    /\ unfinished = Len(queue) + Cardinality(InHand)
    /\ unfinished >= 0
    /\ unfinished <= next_id - 1

\* Every way of leaving the queue has been taken: a worker died of an
\* actuator failure and drained, another exited after stop(), some entry was
\* never driven, and nothing is left unfinished.
C18_Witness ==
    /\ \E w, v \in Tasks : worker_pc[w] = "failed" /\ worker_pc[v] = "exited"
    /\ next_id = MaxCmds + 1
    /\ Dropped # {}
    /\ drives # <<>>
    /\ unfinished = 0

\* ---------------------------------------------------------------- C20
\* C20: a PATCH /config answered 200 that carries execution_rate_limit puts
\* the new rate and capacity on the live execution limiter, so that the
\* refill of the worker's next wait_for_token(), whenever it comes (from the
\* clock reading of the last refill on), is computed with them: the tokens
\* it leaves are the old ones plus the elapsed time at the new rate, at most
\* the new capacity.  The PATCH leaves the worker task, its position and
\* entry in flight, the queue and the actuator's calls as they were; the
\* limiter the worker waits on always carries the configured execution limit.
C20_ExecutionLimitPatchedLive ==
    [][/\ \A req \in ConfigRequests :
            (/\ HandleRequest(req)
             /\ req.method = "PATCH"
             /\ req.json.execution_rate_limit # None
             /\ handle_request(AppState, req, now).response.status_code = 200)
            => LET new == RateLimitSettings(req.json.execution_rate_limit[1]).value
               IN  /\ config'.execution_rate_limit = new
                   /\ execution_limiter'.rate_per_second = new.rate_per_second
                   /\ execution_limiter'.capacity = new.burst
                   /\ execution_limiter'.tokens = execution_limiter.tokens
                   /\ execution_limiter'.updated_at = execution_limiter.updated_at
                   /\ \A t \in execution_limiter.updated_at..(MaxTime * Second + 1) :
                         refill(execution_limiter', t).tokens
                            = Min(new.burst * OneToken,
                                  execution_limiter.tokens
                                  + (t - execution_limiter.updated_at)
                                    * new.rate_per_second)
                   /\ worker_task' = worker_task /\ generation' = generation
                   /\ worker_pc' = worker_pc /\ command' = command
                   /\ wake_at' = wake_at /\ shutdown' = shutdown
                   /\ queue' = queue /\ unfinished' = unfinished
                   /\ drives' = drives
       /\ execution_limiter'.rate_per_second
             = config'.execution_rate_limit.rate_per_second
       /\ execution_limiter'.capacity = config'.execution_rate_limit.burst]_vars

\* ---------------------------------------------------------------- C21
\* C21: set_maxsize(n) with n <= 0 raises and leaves the limit as it was;
\* with n > 0 it sets the limit and touches nothing else, entries queued
\* beyond the new limit included, and the next enqueue_drive is refused iff
\* the depth is n or more; an accepted enqueue_drive appends at the end.
C21_SetMaxsize ==
    [][/\ \A n \in MaxsizeArgs :
             n <= 0 => set_maxsize(maxsize, n) = [raised |-> TRUE, maxsize |-> maxsize]
       /\ \A n \in MaxsizeArgs :
             (n > 0 /\ SetMaxsize(n)) =>
                 /\ ~set_maxsize(maxsize, n).raised
                 /\ maxsize' = n
                 /\ queue' = queue /\ unfinished' = unfinished
                 /\ worker_pc' = worker_pc /\ command' = command
                 /\ \A d \in {0} \cup DurationSeconds :
                       enqueue_drive(queue', unfinished', maxsize',
                                     [id |-> next_id, duration_s |-> d]).raised
                          <=> Len(queue) >= n
       /\ \A d \in {0} \cup DurationSeconds :
             EnqueueDrive(d) =>
                 IF Len(queue) >= maxsize
                 THEN enq_ret' = QueueFull /\ queue' = queue
                 ELSE /\ enq_ret' = Len(queue) + 1
                      /\ queue' = Append(queue, [id |-> next_id, duration_s |-> d])]_vars

\* The limit was lowered below the depth: the entries are still queued, in
\* submission order, and the enqueue_drive that followed was refused.
C21_Witness ==
    /\ Len(queue) > maxsize
    /\ enq_ret = QueueFull
    /\ \A i \in 1..Len(queue) : queue[i].id = next_id - 1 - Len(queue) + i

\* ---------------------------------------------------------------- C22
\* C22: configure(rate, capacity) with rate <= 0 or capacity <= 0 raises and
\* leaves rate, capacity, token count and timestamp as they were; with both
\* positive it replaces rate and capacity and leaves token count and
\* timestamp as they were.
C22_ConfigureValidates ==
    \A rate \in ConfigureRates, capacity \in ConfigureCapacities :
        \A r \in {configure_call(token_bucket, rate, capacity)} :
            IF rate <= 0 \/ capacity <= 0
            THEN r.raised /\ r.bucket = token_bucket
            ELSE /\ ~r.raised
                 /\ r.bucket.rate_per_second = rate
                 /\ r.bucket.capacity = capacity
                 /\ r.bucket.tokens = token_bucket.tokens
                 /\ r.bucket.updated_at = token_bucket.updated_at

\* The bucket was refilled by a call after time had passed and then given a
\* lower capacity: it still holds the tokens and the timestamp of that call.
C22_Witness ==
    /\ token_bucket.updated_at > 0
    /\ token_bucket.tokens > token_bucket.capacity * OneToken
    /\ token_log # <<>>

\* ---------------------------------------------------------------- C28
\* C28: the token count is never negative, and when allow() or an iteration
\* of wait_for_token() has run, the first one after a configure() included,
\* it is at most the capacity.
C28_ClampedAfterCall ==
    [][/\ token_bucket'.tokens >= 0
       /\ (token_log' # token_log \/ token_wake' # token_wake)
             => token_bucket'.tokens <= token_bucket'.capacity * OneToken]_vars

\* ---------------------------------------------------------------- C23
\* C23: in every reachable state the configuration has a non-empty API-key
\* set, a positive queue_maxsize, and a strictly positive rate_per_second and
\* burst for the ingress limit and for the execution limit.
C23_ConfigurationValid ==
    /\ config.api_keys # {}
    /\ config.queue_maxsize > 0
    /\ \A limit \in {config.ingress_rate_limit, config.execution_rate_limit} :
          /\ limit.rate_per_second # NaN /\ limit.rate_per_second > 0
          /\ limit.burst > 0

\* ---------------------------------------------------------------- C25
\* C25: handle_request answers every request with a Response whose status is
\* one of 200, 202, 400, 401, 403, 404, 422, 429, 503; no exception leaves it,
\* whatever the fields of a PATCH /config body are.
C25_EveryFailureIsAResponse ==
    \A req \in {Request("PATCH", "/config", j, GoodHeaders) : j \in RawPatches}
               \cup RequestsWith(GoodHeaders) :
        \A out \in {handle_request(AppState, req, now)} :
            /\ out.error = ""
            /\ out.response.status_code
                  \in {200, 202, 400, 401, 403, 404, 422, 429, 503}

\* ---------------------------------------------------------------- C24
\* C24: a PATCH /config answered 200 changes only what its body carries: an
\* absent ingress_rate_limit, execution_rate_limit or queue_maxsize keeps its
\* value in the configuration and in the live limiter or queue, a present one
\* takes the value sent, api_keys and allowed_networks stay, nothing else of
\* the service changes, and the body of the response is the snapshot of the
\* configuration after the update.
C24_PatchChangesWhatItCarries ==
    \A j \in RawPatches :
        \A out \in {handle_request(AppState,
                                   Request("PATCH", "/config", j, GoodHeaders), now)} :
            out.response.status_code = 200 =>
                /\ IF j.ingress_rate_limit = None
                   THEN /\ out.state.config.ingress_rate_limit
                              = config.ingress_rate_limit
                        /\ out.state.ingress_limiter = ingress_limiter
                   ELSE /\ out.state.config.ingress_rate_limit
                              = RateLimitSettings(j.ingress_rate_limit[1]).value
                        /\ out.state.ingress_limiter.rate_per_second
                              = out.state.config.ingress_rate_limit.rate_per_second
                        /\ out.state.ingress_limiter.capacity
                              = out.state.config.ingress_rate_limit.burst
                /\ IF j.execution_rate_limit = None
                   THEN /\ out.state.config.execution_rate_limit
                              = config.execution_rate_limit
                        /\ out.state.execution_limiter = execution_limiter
                   ELSE /\ out.state.config.execution_rate_limit
                              = RateLimitSettings(j.execution_rate_limit[1]).value
                        /\ out.state.execution_limiter.rate_per_second
                              = out.state.config.execution_rate_limit.rate_per_second
                        /\ out.state.execution_limiter.capacity
                              = out.state.config.execution_rate_limit.burst
                /\ IF j.queue_maxsize = None
                   THEN /\ out.state.config.queue_maxsize = config.queue_maxsize
                        /\ out.state.maxsize = maxsize
                   ELSE /\ out.state.config.queue_maxsize = int(j.queue_maxsize[1]).value
                        /\ out.state.maxsize = int(j.queue_maxsize[1]).value
                /\ out.state.config.api_keys = config.api_keys
                /\ out.state.config.allowed_networks = config.allowed_networks
                /\ out.state.queue = queue /\ out.state.unfinished = unfinished
                /\ out.state.next_id = next_id /\ out.state.estopped = estopped
                /\ out.state.servo = servo
                /\ out.response.body = snapshot(out.state.config)

\* A PATCH that carried queue_maxsize and execution_rate_limit and no
\* ingress_rate_limit has been applied.
C24_Witness ==
    /\ config.queue_maxsize = 1 /\ maxsize = 1
    /\ config.execution_rate_limit = [rate_per_second |-> 2, burst |-> 1]
    /\ execution_limiter.capacity = 1
    /\ config.ingress_rate_limit = [rate_per_second |-> 2, burst |-> 2]
    /\ ingress_limiter.capacity = 2

\* ---------------------------------------------------------------- C27
\* The status of the first check of the dispatcher's order that the request
\* fails in the present state, 0 when it fails none: API key, syntax of the
\* client address, allowed networks, route, the handler's validation, and for
\* a drive request the ingress token and the room in the queue.
FirstFailingCheck(req) ==
    LET h == req.headers
        ip_obj == ip_address(IF h.forwarded = None THEN "127.0.0.1" ELSE h.forwarded[1])
        route == routes_get(upper(req.method), req.path)
        valid ==
            CASE route = "_handle_drive" ->
                    /\ validate_speed(req.json.left_speed)
                    /\ validate_speed(req.json.right_speed)
                    /\ validate_duration(req.json.duration_s)
              [] route = "_handle_pan_tilt" ->
                    /\ req.json.pan_deg # None /\ req.json.tilt_deg # None
                    /\ req.json.pan_deg[1] \in -90..90
                    /\ req.json.tilt_deg[1] \in -45..45
              [] route = "_handle_patch_config" ->
                    req.json.queue_maxsize = None \/ req.json.queue_maxsize[1].num > 0
              [] OTHER -> TRUE
    IN  IF h.api_key = None \/ h.api_key[1] \notin config.api_keys THEN 401
        ELSE IF ip_obj = <<>> THEN 400
        ELSE IF \A i \in 1..Len(config.allowed_networks) :
                   ~in_network(ip_obj, config.allowed_networks[i]) THEN 403
        ELSE IF route = "None" THEN 404
        ELSE IF ~valid THEN 422
        ELSE IF route # "_handle_drive" THEN 0
        ELSE IF refill(ingress_limiter, now).tokens < OneToken THEN 429
        ELSE IF Len(queue) >= maxsize THEN 503
        ELSE 0

\* C27: the response is that of the first check the request fails, in the
\* order 401, 400, 403, 404, 422, 429, 503, and a success when it fails none;
\* a request refused with 401, 400, 403 or 404, and a drive request refused
\* with 422, changes no state and calls no collaborator (no ingress token is
\* taken, nothing is enqueued); a drive request refused with 429 does not
\* reach the queue.
C27_FirstFailingCheckAnswers ==
    \A req \in Requests :
        \A out \in {handle_request(AppState, req, now)} :
        \A failed \in {FirstFailingCheck(req)} :
            /\ out.error = ""
            /\ IF failed = 0
               THEN out.response.status_code \in {200, 202}
               ELSE out.response.status_code = failed
            /\ (failed \in {401, 400, 403, 404}
                  \/ (failed = 422 /\ req.path = "/drive/differential"))
                  => out.state = AppState /\ out.calls = <<>>
            /\ failed = 429
                  => /\ out.calls = <<"ingress_limiter.allow">>
                     /\ out.state.queue = queue /\ out.state.unfinished = unfinished

\* The ingress bucket is below one token and the queue is at its limit: a
\* valid drive request fails the token check before the capacity check, an
\* invalid one fails validation before both, and an unknown route under a
\* wrong key fails the key check.
C27_Witness ==
    /\ refill(ingress_limiter, now).tokens < OneToken
    /\ Len(queue) >= maxsize
    /\ FirstFailingCheck(Request("POST", "/drive/differential",
            [left_speed |-> <<5>>, right_speed |-> <<-2>>, duration_s |-> None],
            GoodHeaders)) = 429
    /\ FirstFailingCheck(Request("POST", "/drive/differential",
            [left_speed |-> <<15>>, right_speed |-> <<2>>, duration_s |-> None],
            GoodHeaders)) = 422
    /\ FirstFailingCheck(Request("GET", "/does-not-exist", None,
            [api_key |-> <<"wrong-key">>, forwarded |-> None])) = 401

\* ---------------------------------------------------------------- C26
\* The controller is latched at position i of motor_log: emergency_stop was
\* called before it and reset_estop has not been called since.
Latched(i) ==
    \E j \in 1..(i - 1) :
        /\ motor_log[j] = Called("emergency_stop")
        /\ \A k \in (j + 1)..(i - 1) : motor_log[k] # Called("reset_estop")

\* C26: a drive(), brake() or stop() called after emergency_stop() and before
\* the next reset_estop() gives the backend no command; _estop is set exactly
\* from emergency_stop() to the next reset_estop(); and a drive() called when
\* the controller is not latched, after a reset_estop() as well, commands both
\* motors.
C26_EstopLatch ==
    /\ \A i \in 1..Len(motor_log) :
          (/\ motor_log[i] \in {Called("drive"), Called("brake"), Called("stop")}
           /\ Latched(i))
          => (i = Len(motor_log) \/ motor_log[i + 1].kind = "call")
    /\ \A i \in 1..Len(motor_log) :
          (motor_log[i] = Called("drive") /\ ~Latched(i))
          => /\ i + 2 <= Len(motor_log)
             /\ \A k \in {i + 1, i + 2} :
                   /\ motor_log[k].kind = "backend"
                   /\ motor_log[k].name = "command_motor"
    /\ estop <=> Latched(Len(motor_log) + 1)

\* emergency_stop(), a drive() that reached no motor, reset_estop(), and a
\* drive() that reached both.
C26_Witness ==
    \E i, j, k \in 1..Len(motor_log) :
        /\ i < j /\ j < k /\ k + 2 = Len(motor_log)
        /\ motor_log[i] = Called("emergency_stop")
        /\ motor_log[i + 3] = Called("drive")
        /\ j = i + 4
        /\ motor_log[j] = Called("reset_estop")
        /\ motor_log[k] = Called("drive")
        /\ motor_log[k + 1].kind = "backend"

\* ---------------------------------------------------------------- C30
\* C30: with a constant rate R and capacity C, under every interleaving of
\* allow() callers and wait_for_token() callers: the calls that fall in an
\* interval of length T take at most C + R*T tokens between them; the token
\* count is never negative and never above C; and every token taken is
\* accounted for once: the tokens taken so far and the tokens left together
\* are at most the C the bucket started with and the R per unit of time
\* refilled up to the last refill.
C30_TokensConserved ==
    /\ token_bucket.tokens >= 0
    /\ token_bucket.tokens <= token_bucket.capacity * OneToken
    /\ Consumed(1, Len(token_log)) * OneToken + token_bucket.tokens
          <= token_bucket.capacity * OneToken
             + token_bucket.updated_at * token_bucket.rate_per_second
    /\ \A i, j \in 1..Len(token_log) :
          i <= j =>
              Consumed(i, j) * OneToken
                  <= token_bucket.capacity * OneToken
                     + (token_log[j].at - token_log[i].at)
                       * token_bucket.rate_per_second

\* Two callers are asleep in wait_for_token at once on a bucket that allow()
\* and an earlier wait_for_token() have emptied, the latter after time passed.
C30_Witness ==
    /\ Cardinality(Waiting) >= 2
    /\ token_bucket.tokens < OneToken
    /\ \E i, j \in 1..Len(token_log) :
          /\ token_log[i].by = "allow" /\ token_log[i].ok
          /\ token_log[j].by = "wait_for_token" /\ token_log[j].at > 0

\* ---------------------------------------------------------------- C29
\* C29: a caller of wait_for_token() eventually returns (with its token),
\* whatever other callers of wait_for_token() and of allow() do meanwhile.
C29_WaiterReturns ==
    \A k \in 1..MaxWaiters : (token_wake[k] # None) ~> (token_wake[k] = None)

\* ---------------------------------------------------------------- C31
\* C31: in every step the execution limiter loses one token exactly when the
\* worker calls actuator.drive(), once per call: a step with a drive() call
\* leaves the limiter refilled to the time of the call and one token down; a
\* step without one (the trailing stop() of a timed command, the stop, brake,
\* emergency-stop and reset handlers, a clear() that discards entries, a
\* token wait that goes on) leaves it as it was or only refilled.
C31_OneTokenPerDrive ==
    [][\/ /\ drives' = drives
          /\ execution_limiter' \in {execution_limiter, refill(execution_limiter, now)}
       \/ /\ Len(drives') = Len(drives) + 1
          /\ execution_limiter'
                = [refill(execution_limiter, now) EXCEPT !.tokens = @ - OneToken]]_vars

\* Two entries were executed, each for a token, the later one after time had
\* passed, and an accepted entry was discarded by a handler's clear().
C31_Witness ==
    /\ Len(drives) >= 2
    /\ Dropped # {}
    /\ execution_limiter.updated_at > 0
    /\ execution_limiter.tokens < OneToken

\* ---------------------------------------------------------------- C32
\* The configuration store of the state st agrees with its live objects: the
\* snapshot's two rate limits are the rate and capacity of the two buckets
\* and its queue_maxsize is the queue's limit.
InStep(st) ==
    LET snap == snapshot(st.config)
    IN  /\ snap.ingress_rate_limit.rate_per_second = st.ingress_limiter.rate_per_second
        /\ snap.ingress_rate_limit.burst = st.ingress_limiter.capacity
        /\ snap.execution_rate_limit.rate_per_second
              = st.execution_limiter.rate_per_second
        /\ snap.execution_rate_limit.burst = st.execution_limiter.capacity
        /\ snap.queue_maxsize = st.maxsize

\* C32: after any sequence of PATCH /config requests the configuration store
\* agrees with the live limiters and queue, and whatever PATCH body comes
\* next, accepted, refused with 422 or ended by an exception, leaves them in
\* agreement.
C32_StoreMatchesLiveObjects ==
    /\ InStep(AppState)
    /\ \A j \in RawPatches :
          InStep(handle_request(AppState,
                                Request("PATCH", "/config", j, GoodHeaders), now).state)

\* PATCH requests changed the execution limit, to a NaN rate, and the
\* queue's limit: the store and the live objects hold both.
C32_Witness ==
    /\ config.execution_rate_limit = [rate_per_second |-> NaN, burst |-> 1]
    /\ execution_limiter.rate_per_second = NaN
    /\ execution_limiter.capacity = 1
    /\ config.queue_maxsize = 1
    /\ maxsize = 1

\* ---------------------------------------------------------------- C33
\* C33: with a constant maxsize N, the accepted commands not yet marked done
\* (those queued and those a worker holds) number at most N + 1, and the
\* depth of the queue is at most N.
C33_AtMostOneBeyondTheQueue ==
    /\ unfinished <= maxsize + 1
    /\ Len(queue) <= maxsize

\* ---------------------------------------------------------------- C34
\* The accepted command i is not yet marked done: it is in the queue or in
\* the worker's hand.
Pending(i) == i \in Ids(queue) \cup {command[w].id : w \in InHand}

\* C34: with a worker running, never stopped, and an actuator that does not
\* raise: every accepted command is eventually marked done; the commands not
\* yet done are exactly those the queue's counter counts; and a command is
\* passed to the actuator at most once, and never after clear() discarded
\* it (a command that is done was either executed or discarded).
C34_AcceptedIsEventuallyDone ==
    /\ \A i \in 1..MaxCmds :
          (i < next_id /\ worker_task # NoTask) ~> (i < next_id /\ ~Pending(i))
    /\ [](/\ unfinished = Len(queue) + Cardinality(InHand)
          /\ \A i, j \in 1..Len(drives) : i # j => drives[i] # drives[j]
          /\ \A i \in 1..Len(drives) : drives[i] < next_id)
    /\ [][\A i \in 1..MaxCmds :
            (i < next_id /\ ~Pending(i)) =>
                /\ ~Pending(i)'
                /\ (\E k \in 1..Len(drives') : drives'[k] = i)
                      <=> (\E k \in 1..Len(drives) : drives[k] = i)]_vars

\* Every accepted command is done, some executed and one discarded by
\* clear(), and the worker is still running.
C34_Witness ==
    /\ next_id = MaxCmds + 1
    /\ unfinished = 0 /\ queue = <<>> /\ InHand = {}
    /\ Len(drives) >= 2
    /\ Dropped # {}
    /\ worker_task # NoTask /\ worker_pc[worker_task] = "poll"
    /\ ~shutdown

\* ---------------------------------------------------------------- C35
\* C35: in the service with the latching controller, POST
\* /drive/emergency-stop answered 200 leaves the controller latched, the
\* latch stays until POST /drive/reset is handled, and in every step taken
\* while it is latched (a handler's stop() or brake(), the worker's drive()
\* for an entry it already held, its trailing stop()) the backend receives
\* no command other than the emergency stop's own.
C35_NothingMovesWhileLatched ==
    /\ [](/\ estop = estopped
          /\ \A out \in {handle_request(AppState,
                             Request("POST", "/drive/emergency-stop", None, GoodHeaders),
                             now)} :
                /\ out.response.status_code = 200
                /\ actuator_calls(estop, out.calls).estop)
    /\ [][estop =>
            /\ \A i \in (Len(motor_log) + 1)..Len(motor_log') :
                  motor_log'[i].kind = "backend" => motor_log'[i].name = "estop_motor"
            /\ (~estop' => motor_log' = Append(motor_log, Called("reset_estop")))]_vars

\* The worker held an entry when the emergency stop came; it has since taken
\* its token and called drive(), which reached no motor, and is now in the
\* duration sleep ahead of its trailing stop().
C35_Witness ==
    /\ estop
    /\ \E w \in Tasks : worker_pc[w] = "sleep"
    /\ Len(motor_log) = 4
    /\ motor_log[1] = Called("emergency_stop")
    /\ motor_log[4] = Called("drive")

\* ---------------------------------------------------------------- C36
\* C36: the drive handler does not look at the latch: it answers a request
\* as it would with the latch in the other position; a command admitted
\* while the controller is latched takes one ingress token and joins the
\* queue; the worker's drive() for an entry while the controller is latched
\* takes one execution token and gives the backend nothing; every entry the
\* worker took got exactly one drive() call, so none is called again later;
\* and /drive/reset only clears the latch.
C36_LatchedDriveIsSpent ==
    /\ [](/\ \A req \in RobotRequests :
                req.path = "/drive/differential" =>
                  \A a \in {handle_request(AppState, req, now)},
                     b \in {handle_request([AppState EXCEPT !.estopped = ~@], req, now)} :
                        /\ a.response.status_code = b.response.status_code
                        /\ a.response = b.response
                        /\ a.calls = b.calls
                        /\ a.state = [b.state EXCEPT !.estopped = estopped]
          /\ Len(drives)
                = Cardinality({i \in 1..Len(motor_log) : motor_log[i] = Called("drive")})
          /\ \A i, j \in 1..Len(drives) : i # j => drives[i] # drives[j])
    /\ [][estop =>
            /\ next_id' # next_id =>
                  /\ ingress_limiter'
                        = [refill(ingress_limiter, now) EXCEPT !.tokens = @ - OneToken]
                  /\ queue' = Append(queue, [id |-> next_id,
                                             duration_s |-> queue'[Len(queue')].duration_s])
                  /\ UNCHANGED <<motorVars, drives>>
            /\ drives' # drives =>
                  /\ execution_limiter'
                        = [refill(execution_limiter, now) EXCEPT !.tokens = @ - OneToken]
                  /\ motor_log' = Append(motor_log, Called("drive"))
                  /\ \E w \in Tasks : drives' = Append(drives, command[w].id)
            /\ ~estop' =>
                  /\ motor_log' = Append(motor_log, Called("reset_estop"))
                  /\ UNCHANGED <<queue, unfinished, command, worker_pc, drives>>]_vars

\* A command admitted after the emergency stop was taken by the worker and
\* passed to drive(), the latch was reset, and the worker is idle: the
\* backend has seen the emergency stop and nothing else.
C36_Witness ==
    /\ ~estop
    /\ motor_log = <<Called("emergency_stop"),
                     Backend("estop_motor", "left", 0), Backend("estop_motor", "right", 0),
                     Called("drive"), Called("reset_estop")>>
    /\ drives = <<1>> /\ next_id = 2
    /\ queue = <<>> /\ unfinished = 0 /\ InHand = {}
    /\ execution_limiter.tokens < OneToken

\* ---------------------------------------------------------------- C37
\* The motion calls the controller has received in the log, in order.
MotionCalls(log) ==
    SelectSeq(log, LAMBDA entry :
        entry \in {Called("drive"), Called("stop"), Called("brake"),
                   Called("emergency_stop")})

\* C37: when a shutdown() call that waited for the worker ends, no worker
\* task is alive and the last motion call the controller received is stop();
\* and once shutdown() is over (the flag is set, no caller waits, no worker
\* task is registered) no further drive() call is made.
C37_ShutdownStopsTheRobot ==
    /\ [][Len(stoppers') < Len(stoppers) =>
            /\ Live' = {}
            /\ MotionCalls(motor_log') # <<>>
            /\ MotionCalls(motor_log')[Len(MotionCalls(motor_log'))] = Called("stop")]_vars
    /\ [][(shutdown /\ stoppers = <<>> /\ worker_task = NoTask)
            => drives' = drives]_vars

\* ---------------------------------------------------------------- C38
\* C38: over any sequence of read() calls on_line goes from false to true
\* only in a read whose smoothed left or right value is at or above
\* active_threshold, from true to false only in a read whose smoothed values
\* are both below inactive_threshold, and is unchanged by anything else; the
\* values a read reports are the smoothed values, and they lie in [0, 1].
C38_Hysteresis ==
    /\ [][/\ (~line_follower.on_line /\ line_follower'.on_line) =>
                /\ line_reads' = line_reads + 1
                /\ \/ line_follower'.ema_left[1] >= line_follower'.active_threshold
                   \/ line_follower'.ema_right[1] >= line_follower'.active_threshold
          /\ (line_follower.on_line /\ ~line_follower'.on_line) =>
                /\ line_reads' = line_reads + 1
                /\ line_follower'.ema_left[1] < line_follower'.inactive_threshold
                /\ line_follower'.ema_right[1] < line_follower'.inactive_threshold]_vars
    /\ [](\A raw_left, raw_right \in RawReadings :
            \A out \in {read(line_follower, raw_left, raw_right)} :
                /\ out.telemetry.left \in 0..FullScale
                /\ out.telemetry.right \in 0..FullScale
                /\ out.telemetry.left = out.follower.ema_left[1]
                /\ out.telemetry.right = out.follower.ema_right[1]
                /\ out.telemetry.on_line = out.follower.on_line)

\* on_line is held inside the band: it was set by a reading at or above
\* active_threshold, and the smoothed values are now both below it while one
\* is still at or above inactive_threshold.
C38_Witness ==
    /\ line_follower.on_line
    /\ line_follower.inactive_threshold < line_follower.active_threshold
    /\ line_follower.ema_left[1] < line_follower.active_threshold
    /\ line_follower.ema_right[1] < line_follower.active_threshold
    /\ line_follower.ema_right[1] >= line_follower.inactive_threshold
    /\ line_follower.ema_left[1] > 0
    /\ line_reads >= 2

====
